---- MODULE Spec2Model ----
(***************************************************************************)
(* Model of the log rendering and tailing engine of slurm-tui (logs.go):   *)
(* the tailRenderer byte interpreter with its lineBuffer rows, wrapRunes,  *)
(* and the logFollower that polls one file.                                *)
(*                                                                         *)
(* Bytes and runes are integers.  A Go string is the sequence of its       *)
(* bytes; a lineBuffer is the sequence of its runes.  Go indices are       *)
(* 0-based, TLA+ sequences 1-based: cursorLine, cursorCol and the result   *)
(* of runeIndexForColumn keep their Go values and are shifted by one where *)
(* a sequence is indexed.                                                  *)
(***************************************************************************)
EXTENDS Integers, Sequences, FiniteSets, TLC

VARIABLES
    cfg,      \* the run: [limits, maxFed, maxBulk]
    r,        \* the tailRenderer
    prev,     \* r as it was when the last ingest call started
    chunk,    \* the byte slice of the last ingest call
    ret,      \* what the last ingest call returned: [newLines, currentChanged]
    fed,      \* every byte ingested since construction or reset, in order
    emitted,  \* the newLines of all ingest calls since then, concatenated
    nBulk,    \* number of bulk chunks ingested (long-stream runs only)
    line,     \* wrapRunes: the line argument
    width,    \* wrapRunes: the width argument
    segs,     \* wrapRunes: the result
    wpc,      \* wrapRunes: "ready" before the call, "done" after
    fol,      \* the logFollower
    dirent,   \* inode number the follower's path names, 0 when no such file
    disk,     \* inode number -> file content (bytes)
    pc,       \* poll: "idle", "open", "read" (next step), "returned" (result not yet taken)
    st,       \* poll: the size reported by os.Stat
    fd,       \* poll: inode number of the opened file
    out,      \* what the poll returned: [chunk, err], until the caller has taken it
    fprev,    \* fol as it was when the current poll started
    absent,   \* whether the poll that returned found no file under the path
    label,    \* the stream label this follower is polled with
    nTrunc,   \* number of truncations of the file so far
    nWritten, \* number of bytes written under the path so far
    merged,   \* the mergedBuffer the polled chunks are applied to
    io,       \* what the poll found and read: [kind, size, data, handed]
    rotated,  \* the file was truncated or removed since the last poll
    store,    \* the JobStore: [records, order]
    sprev,    \* store as it was when the last JobStore call started
    jop,      \* the last JobStore call: [op, jobs | id, ret]
    applied,  \* the entries added to merged since its construction or reset, in order
    ui,       \* the UI model: the fields of type model the selection depends on
    uimsg     \* the last message Update handled and the cancelJob call it made

rendVars == <<r, prev, chunk, ret, fed, emitted, nBulk>>
wrapVars == <<line, width, segs, wpc>>
follVars == <<fol, dirent, disk, pc, st, fd, out, fprev, absent, label, nTrunc, nWritten,
              merged, applied, io, rotated>>
jobVars == <<store, sprev, jop>>
uiVars == <<ui, uimsg>>
vars == <<cfg, rendVars, wrapVars, follVars, jobVars, uiVars>>

----------------------------------------------------------------------------
(* Byte values the code names. *)

ESC == 27
CR == 13
LF == 10
LBRACKET == 91
SEMICOLON == 59
SPACE == 32
PLUS == 43
MINUS == 45
DIGIT0 == 48
DIGIT9 == 57
CMD_A == 65
CSI_FINAL_LO == 64
CSI_FINAL_HI == 126
RuneError == 65533

(* Program constants. *)
initialTailBytes == 1048576
renderLineLimit == 20000
ActiveWindow == 256
TestLimit == 100

----------------------------------------------------------------------------
(* Sequence helpers. *)

Max(a, b) == IF a >= b THEN a ELSE b
Min(a, b) == IF a <= b THEN a ELSE b

\* s[from:] of Go, from 0-based
Drop(s, from) == SubSeq(s, from + 1, Len(s))
\* s[:to] of Go
Take(s, to) == SubSeq(s, 1, to)
\* the last n elements of s (s[len(s)-n:])
LastN(s, n) == SubSeq(s, Len(s) - n + 1, Len(s))

\* n copies of x
Repeat(x, n) == [i \in 1..n |-> x]

\* ss[lo] \o ... \o ss[hi]
RECURSIVE FlattenRange(_, _, _)
FlattenRange(ss, lo, hi) ==
    IF lo > hi THEN <<>>
    ELSE IF lo = hi THEN ss[lo]
    ELSE LET mid == (lo + hi) \div 2 IN
         FlattenRange(ss, lo, mid) \o FlattenRange(ss, mid + 1, hi)

\* the concatenation of the sequences of ss
Flatten(ss) == FlattenRange(ss, 1, Len(ss))

\* all sequences over S of length exactly n / at most n
RECURSIVE SeqsOfLen(_, _)
SeqsOfLen(S, n) ==
    IF n = 0 THEN {<<>>}
    ELSE {<<x>> \o s : x \in S, s \in SeqsOfLen(S, n - 1)}
SeqsUpTo(S, n) == UNION {SeqsOfLen(S, k) : k \in 0..n}

----------------------------------------------------------------------------
(* unicode/utf8 as used by flushPendingUTF8, String() and range-over-string *)

\* utf8.first[b]: low 3 bits the encoded size, high 4 bits the index of the
\* accept range of the second byte; 240 (as) for ASCII, 241 (xx) for invalid
Utf8First(b) ==
    IF b < 128 THEN 240
    ELSE IF b < 194 THEN 241
    ELSE IF b < 224 THEN 2
    ELSE IF b = 224 THEN 19
    ELSE IF b < 237 THEN 3
    ELSE IF b = 237 THEN 35
    ELSE IF b < 240 THEN 3
    ELSE IF b = 240 THEN 52
    ELSE IF b < 244 THEN 4
    ELSE IF b = 244 THEN 68
    ELSE 241

\* utf8.acceptRanges[i]
AcceptLo(i) == IF i = 1 THEN 160 ELSE IF i = 3 THEN 144 ELSE IF i \in {0, 2, 4} THEN 128 ELSE 0
AcceptHi(i) == IF i = 2 THEN 159 ELSE IF i = 4 THEN 143 ELSE IF i \in {0, 1, 3} THEN 191 ELSE 0

IsCont(b) == b >= 128 /\ b <= 191

\* utf8.FullRune(p)
FullRune(p) ==
    LET n == Len(p) IN
    IF n = 0 THEN FALSE
    ELSE LET x == Utf8First(p[1])
             acc == x \div 16
         IN IF n >= (x % 8) THEN TRUE
            ELSE IF n > 1 /\ (p[2] < AcceptLo(acc) \/ AcceptHi(acc) < p[2]) THEN TRUE
            ELSE IF n > 2 /\ ~IsCont(p[3]) THEN TRUE
            ELSE FALSE

\* utf8.DecodeRune(p): [ru, size]
DecodeRune(p) ==
    LET n == Len(p) IN
    IF n < 1 THEN [ru |-> RuneError, size |-> 0]
    ELSE LET p0 == p[1]
             x == Utf8First(p0)
             sz == x % 8
             acc == x \div 16
         IN IF x >= 240 THEN [ru |-> IF x = 240 THEN p0 ELSE RuneError, size |-> 1]
            ELSE IF n < sz THEN [ru |-> RuneError, size |-> 1]
            ELSE IF p[2] < AcceptLo(acc) \/ AcceptHi(acc) < p[2] THEN [ru |-> RuneError, size |-> 1]
            ELSE IF sz <= 2 THEN [ru |-> (p0 % 32) * 64 + (p[2] % 64), size |-> 2]
            ELSE IF ~IsCont(p[3]) THEN [ru |-> RuneError, size |-> 1]
            ELSE IF sz <= 3 THEN [ru |-> (p0 % 16) * 4096 + (p[2] % 64) * 64 + (p[3] % 64), size |-> 3]
            ELSE IF ~IsCont(p[4]) THEN [ru |-> RuneError, size |-> 1]
            ELSE [ru |-> (p0 % 8) * 262144 + (p[2] % 64) * 4096 + (p[3] % 64) * 64 + (p[4] % 64),
                  size |-> 4]

\* utf8.EncodeRune / utf8.AppendRune: the bytes of one rune
EncodeRune(ru) ==
    IF ru < 0 \/ ru > 1114111 \/ (ru >= 55296 /\ ru <= 57343) THEN <<239, 191, 189>>
    ELSE IF ru < 128 THEN <<ru>>
    ELSE IF ru < 2048 THEN <<192 + (ru \div 64), 128 + (ru % 64)>>
    ELSE IF ru < 65536
         THEN <<224 + (ru \div 4096), 128 + ((ru \div 64) % 64), 128 + (ru % 64)>>
    ELSE <<240 + (ru \div 262144), 128 + ((ru \div 4096) % 64),
           128 + ((ru \div 64) % 64), 128 + (ru % 64)>>

\* string(runes)
RECURSIVE RunesToString(_)
RunesToString(runes) ==
    IF runes = <<>> THEN <<>> ELSE EncodeRune(Head(runes)) \o RunesToString(Tail(runes))

\* the runes that `for _, ru := range s` yields
RECURSIVE StringRunes(_)
StringRunes(s) ==
    IF s = <<>> THEN <<>>
    ELSE LET d == DecodeRune(s) IN <<d.ru>> \o StringRunes(Drop(s, d.size))

----------------------------------------------------------------------------
(* runewidth.RuneWidth with the default (not East Asian) condition.  The    *)
(* tables are those of go-runewidth restricted to the ranges below.        *)

InCombining(ru) ==
    \/ ru >= 768 /\ ru <= 879          \* 0300-036F
    \/ ru >= 1155 /\ ru <= 1161        \* 0483-0489
    \/ ru >= 6832 /\ ru <= 6862        \* 1AB0-1ACE
    \/ ru >= 7616 /\ ru <= 7679        \* 1DC0-1DFF
    \/ ru >= 8400 /\ ru <= 8432        \* 20D0-20F0
    \/ ru >= 65056 /\ ru <= 65071      \* FE20-FE2F

InNonprint(ru) ==
    \/ ru <= 31
    \/ ru >= 127 /\ ru <= 159
    \/ ru = 173
    \/ ru >= 8203 /\ ru <= 8207        \* 200B-200F
    \/ ru >= 8232 /\ ru <= 8238        \* 2028-202E

InDoublewidth(ru) ==
    \/ ru >= 4352 /\ ru <= 4447        \* 1100-115F
    \/ ru >= 11904 /\ ru <= 12350      \* 2E80-303E
    \/ ru >= 12353 /\ ru <= 13311      \* 3041-33FF
    \/ ru >= 13312 /\ ru <= 19903      \* 3400-4DBF
    \/ ru >= 19968 /\ ru <= 42182      \* 4E00-A4C6
    \/ ru >= 44032 /\ ru <= 55203      \* AC00-D7A3
    \/ ru >= 63744 /\ ru <= 64255      \* F900-FAFF
    \/ ru >= 65281 /\ ru <= 65376      \* FF01-FF60
    \/ ru >= 65504 /\ ru <= 65510      \* FFE0-FFE6

RuneWidth(ru) ==
    IF ru < 0 \/ ru > 1114111 THEN 0
    ELSE IF ru < 32 THEN 0
    ELSE IF (ru >= 127 /\ ru <= 159) \/ ru = 173 THEN 0
    ELSE IF ru < 768 THEN 1
    ELSE IF InNonprint(ru) \/ InCombining(ru) THEN 0
    ELSE IF InDoublewidth(ru) THEN 2
    ELSE 1

\* rw := runewidth.RuneWidth(ru); if rw < 1 { rw = 1 }
CellWidth(ru) == IF RuneWidth(ru) < 1 THEN 1 ELSE RuneWidth(ru)

----------------------------------------------------------------------------
(* lineBuffer *)

\* lineBuffer.visualWidth
RECURSIVE visualWidth(_)
visualWidth(runes) ==
    IF runes = <<>> THEN 0 ELSE CellWidth(Head(runes)) + visualWidth(Tail(runes))

\* the loop of runeIndexForColumn from index i (0-based) with accumulated w
RECURSIVE RuneIndexLoop(_, _, _, _)
RuneIndexLoop(runes, col, i, w) ==
    IF i >= Len(runes) THEN Len(runes)
    ELSE LET rw == CellWidth(runes[i + 1]) IN
         IF w >= col THEN i
         ELSE IF w + rw > col THEN i
         ELSE RuneIndexLoop(runes, col, i + 1, w + rw)

\* lineBuffer.runeIndexForColumn
runeIndexForColumn(runes, col) ==
    IF col <= 0 THEN 0 ELSE RuneIndexLoop(runes, col, 0, 0)

\* WriteAt inserting at the located index instead of replacing the rune there
WriteAt_Inserts(runes, col0, ru) ==
    LET col == IF col0 < 0 THEN 0 ELSE col0
        pos == runeIndexForColumn(runes, col)
    IN IF pos >= Len(runes)
       THEN runes \o Repeat(SPACE, col - visualWidth(runes)) \o <<ru>>
       ELSE Take(runes, pos) \o <<ru>> \o Drop(runes, pos)

\* lineBuffer.WriteAt: the runes after the write
WriteAt(runes, col0, ru) ==
    LET col == IF col0 < 0 THEN 0 ELSE col0
        pos == runeIndexForColumn(runes, col)
    IN IF pos >= Len(runes)
       THEN runes \o Repeat(SPACE, col - visualWidth(runes)) \o <<ru>>
       ELSE [runes EXCEPT ![pos + 1] = ru]

\* lineBuffer.String
String(runes) == RunesToString(runes)

----------------------------------------------------------------------------
(* tailRenderer *)

\* newTailRenderer(limit)
newTailRenderer(limit) ==
    [history |-> <<>>, active |-> << <<>> >>, cursorLine |-> 0, cursorCol |-> 0,
     limit |-> limit, activeWindow |-> ActiveWindow,
     pendingUTF8 |-> <<>>, pendingCSI |-> <<>>]

\* tailRenderer.reset
reset(rr) ==
    [rr EXCEPT !.history = <<>>, !.active = << <<>> >>, !.cursorLine = 0,
               !.cursorCol = 0, !.pendingUTF8 = <<>>, !.pendingCSI = <<>>]

\* csiDone accepting upper-case letters only as final bytes
csiDone_UpperCaseOnly(b) == b >= CMD_A /\ b <= 90

\* csiDone(b)
csiDone(b) == b >= CSI_FINAL_LO /\ b <= CSI_FINAL_HI

\* tailRenderer.writeRune
writeRune(rr, ru) ==
    LET col == rr.cursorCol + RuneWidth(ru) IN
    [rr EXCEPT !.active[rr.cursorLine + 1] = WriteAt(@, rr.cursorCol, ru),
               !.cursorCol = IF col < 0 THEN 0 ELSE col]

\* tailRenderer.flushPendingUTF8 on the call state s = [r, newLines, changed]
RECURSIVE flushPendingUTF8(_)
flushPendingUTF8(s) ==
    IF Len(s.r.pendingUTF8) = 0 THEN s
    ELSE IF ~FullRune(s.r.pendingUTF8) THEN s
    ELSE LET d == DecodeRune(s.r.pendingUTF8)
             ru == IF d.ru = RuneError /\ d.size = 1 THEN s.r.pendingUTF8[1] ELSE d.ru
             w == writeRune(s.r, ru)
         IN flushPendingUTF8([s EXCEPT !.r = [w EXCEPT !.pendingUTF8 = Drop(@, d.size)],
                                       !.changed = TRUE])

\* compactActive trimming history at its tail: the oldest entries stay
compactActive_KeepsOldest(rr) ==
    IF Len(rr.active) <= rr.activeWindow THEN rr
    ELSE LET excess0 == Len(rr.active) - rr.activeWindow
             excess == IF excess0 > rr.cursorLine THEN rr.cursorLine ELSE excess0
         IN IF excess <= 0 THEN rr
            ELSE LET hist == rr.history \o [i \in 1..excess |-> String(rr.active[i])]
                     act == Drop(rr.active, excess)
                     maxHistory == Max(rr.limit - Len(act), 0)
                 IN [rr EXCEPT
                       !.history = IF rr.limit > 0 /\ Len(hist) > maxHistory
                                   THEN Take(hist, maxHistory) ELSE hist,
                       !.active = act,
                       !.cursorLine = rr.cursorLine - excess]

\* tailRenderer.compactActive
compactActive(rr) ==
    IF Len(rr.active) <= rr.activeWindow THEN rr
    ELSE LET excess0 == Len(rr.active) - rr.activeWindow
             excess == IF excess0 > rr.cursorLine THEN rr.cursorLine ELSE excess0
         IN IF excess <= 0 THEN rr
            ELSE LET hist == rr.history \o [i \in 1..excess |-> String(rr.active[i])]
                     act == Drop(rr.active, excess)
                     maxHistory == Max(rr.limit - Len(act), 0)
                 IN [rr EXCEPT
                       !.history = IF rr.limit > 0 /\ Len(hist) > maxHistory
                                   THEN LastN(hist, maxHistory) ELSE hist,
                       !.active = act,
                       !.cursorLine = rr.cursorLine - excess]

\* tailRenderer.advanceLine
advanceLine(rr) ==
    LET act == IF rr.cursorLine = Len(rr.active) - 1
               THEN Append(rr.active, <<>>) ELSE rr.active
    IN compactActive([rr EXCEPT !.active = act,
                                !.cursorLine = rr.cursorLine + 1,
                                !.cursorCol = 0])

\* moveCursorUp without the clamp at the first row
moveCursorUp_NoClamp(rr, n0) ==
    LET n == IF n0 <= 0 THEN 1 ELSE n0
    IN [rr EXCEPT !.cursorLine = rr.cursorLine - n]

\* tailRenderer.moveCursorUp
moveCursorUp(rr, n0) ==
    LET n == IF n0 <= 0 THEN 1 ELSE n0
        cl == rr.cursorLine - n
    IN [rr EXCEPT !.cursorLine = IF cl < 0 THEN 0 ELSE cl]

IsDigit(b) == b >= DIGIT0 /\ b <= DIGIT9

RECURSIVE DigitsValue(_, _)
DigitsValue(s, acc) ==
    IF s = <<>> THEN acc ELSE DigitsValue(Tail(s), acc * 10 + (Head(s) - DIGIT0))

\* strconv.Atoi(s): [ok, v].  Values beyond the int range (an error in Go)
\* need 19 digits and are outside the parameter lengths explored here.
Atoi(s) ==
    LET signed == s # <<>> /\ Head(s) \in {PLUS, MINUS}
        digits == IF signed THEN Tail(s) ELSE s
    IN IF digits = <<>> \/ \E i \in 1..Len(digits) : ~IsDigit(digits[i])
       THEN [ok |-> FALSE, v |-> 0]
       ELSE [ok |-> TRUE,
             v |-> IF signed /\ Head(s) = MINUS
                   THEN 0 - DigitsValue(digits, 0) ELSE DigitsValue(digits, 0)]

\* strings.Split(params, ";")[0]
RECURSIVE FirstPart(_)
FirstPart(params) ==
    IF params = <<>> \/ Head(params) = SEMICOLON THEN <<>>
    ELSE <<Head(params)>> \o FirstPart(Tail(params))

\* applyCSI ignoring the parameter
CursorUpCount_AlwaysOne(params) == 1

\* the n that applyCSI passes to moveCursorUp for the parameter bytes
CursorUpCount(params) ==
    IF params = <<>> THEN 1
    ELSE LET a == Atoi(FirstPart(params)) IN
         IF a.ok /\ a.v > 0 THEN a.v ELSE 1

\* tailRenderer.applyCSI(seq): [r, ok]
applyCSI(rr, seq) ==
    IF Len(seq) < 3 \/ seq[1] # ESC \/ seq[2] # LBRACKET THEN [r |-> rr, ok |-> FALSE]
    ELSE LET cmd == seq[Len(seq)]
             params == SubSeq(seq, 3, Len(seq) - 1)
         IN IF cmd = CMD_A
            THEN [r |-> moveCursorUp(rr, CursorUpCount(params)), ok |-> TRUE]
            ELSE [r |-> rr, ok |-> FALSE]

\* one iteration of the loop of tailRenderer.ingest, for byte b
IngestByte(s, b) ==
    IF Len(s.r.pendingCSI) > 0
    THEN IF Len(s.r.pendingCSI) = 1
         THEN IF b # LBRACKET
              THEN [s EXCEPT !.r.pendingCSI = <<>>]
              ELSE [s EXCEPT !.r.pendingCSI = Append(@, b)]
         ELSE LET seq == Append(s.r.pendingCSI, b) IN
              IF csiDone(b)
              THEN LET a == applyCSI([s.r EXCEPT !.pendingCSI = seq], seq) IN
                   [s EXCEPT !.r = [a.r EXCEPT !.pendingCSI = <<>>],
                             !.changed = IF a.ok THEN TRUE ELSE @]
              ELSE [s EXCEPT !.r.pendingCSI = seq]
    ELSE IF b = ESC
         THEN LET f == flushPendingUTF8(s) IN [f EXCEPT !.r.pendingCSI = <<b>>]
    ELSE IF b = CR
         THEN LET f == flushPendingUTF8(s) IN
              [f EXCEPT !.r.cursorCol = 0, !.changed = TRUE]
    ELSE IF b = LF
         THEN LET f == flushPendingUTF8(s)
                  text == String(f.r.active[f.r.cursorLine + 1])
              IN [f EXCEPT !.newLines = Append(@, text),
                           !.r = advanceLine(f.r),
                           !.changed = TRUE]
    ELSE flushPendingUTF8([s EXCEPT !.r.pendingUTF8 = Append(@, b)])

\* the loop of tailRenderer.ingest over data[lo..hi], in order: the bytes
\* lo..mid are processed first, then mid+1..hi from the state they leave
RECURSIVE IngestRange(_, _, _, _)
IngestRange(s, data, lo, hi) ==
    IF lo > hi THEN s
    ELSE IF lo = hi THEN IngestByte(s, data[lo])
    ELSE LET mid == (lo + hi) \div 2
             left == IngestRange(s, data, lo, mid)
         IN IF left.changed \in BOOLEAN
            THEN IngestRange(left, data, mid + 1, hi)
            ELSE left

\* ingest losing the bytes of a partial character at the start of each call
ingest_DropsPendingPerCall(rr, data) ==
    IngestRange([r |-> [rr EXCEPT !.pendingUTF8 = <<>>], newLines |-> <<>>, changed |-> FALSE],
                data, 1, Len(data))

\* tailRenderer.ingest(data): [r, newLines, changed]
ingest(rr, data) ==
    IngestRange([r |-> rr, newLines |-> <<>>, changed |-> FALSE], data, 1, Len(data))

\* the rows of active without the trailing empty ones (the activeLen loop)
TrimTrailingEmpty(act) ==
    IF \A i \in 1..Len(act) : Len(act[i]) = 0 THEN <<>>
    ELSE Take(act, CHOOSE k \in 1..Len(act) :
                       /\ Len(act[k]) # 0
                       /\ \A j \in (k + 1)..Len(act) : Len(act[j]) = 0)

\* logicalLines without the final cut to the last limit lines
logicalLines_NoCut(rr) ==
    LET act == TrimTrailingEmpty(rr.active)
    IN rr.history \o [i \in 1..Len(act) |-> String(act[i])]

\* logicalLines rendering the trailing empty rows too
logicalLines_KeepsTrailingRows(rr) ==
    LET all == rr.history \o [i \in 1..Len(rr.active) |-> String(rr.active[i])]
    IN IF rr.limit > 0 /\ Len(all) > rr.limit THEN LastN(all, rr.limit) ELSE all

\* tailRenderer.logicalLines
logicalLines(rr) ==
    LET act == TrimTrailingEmpty(rr.active)
        all == rr.history \o [i \in 1..Len(act) |-> String(act[i])]
    IN IF rr.limit > 0 /\ Len(all) > rr.limit THEN LastN(all, rr.limit) ELSE all

\* lines[lo], ..., lines[hi] with a line feed between neighbours
RECURSIVE JoinRange(_, _, _)
JoinRange(lines, lo, hi) ==
    IF lo > hi THEN <<>>
    ELSE IF lo = hi THEN lines[lo]
    ELSE LET mid == (lo + hi) \div 2 IN
         JoinRange(lines, lo, mid) \o <<LF>> \o JoinRange(lines, mid + 1, hi)

\* strings.Join(lines, "\n")
Join(lines) == JoinRange(lines, 1, Len(lines))

\* tailRenderer.content
content(rr) == Join(logicalLines(rr))

\* tailRenderer.currentLine
currentLine(rr) ==
    IF Len(rr.active) = 0 THEN <<>> ELSE String(rr.active[rr.cursorLine + 1])

----------------------------------------------------------------------------
(* wrapRunes *)

\* the loop of wrapRunes without the check that the next character still fits
RECURSIVE WrapLoop_NoFitCheck(_, _, _)
WrapLoop_NoFitCheck(s, runes, wd) ==
    IF runes = <<>> THEN s
    ELSE LET ru == Head(runes)
             rw == CellWidth(ru)
             s2 == [s EXCEPT !.b = @ \o EncodeRune(ru), !.w = @ + rw]
             s3 == IF s2.w >= wd
                   THEN [out |-> Append(s2.out, s2.b), b |-> <<>>, w |-> 0] ELSE s2
         IN WrapLoop_NoFitCheck(s3, Tail(runes), wd)

\* the loop of wrapRunes over the runes of the line; s = [out, b, w]
RECURSIVE WrapLoop(_, _, _)
WrapLoop(s, runes, wd) ==
    IF runes = <<>> THEN s
    ELSE LET ru == Head(runes)
             rw == CellWidth(ru)
             s1 == IF s.w + rw > wd /\ Len(s.b) > 0
                   THEN [out |-> Append(s.out, s.b), b |-> <<>>, w |-> 0] ELSE s
             s2 == [s1 EXCEPT !.b = @ \o EncodeRune(ru), !.w = @ + rw]
             s3 == IF s2.w >= wd
                   THEN [out |-> Append(s2.out, s2.b), b |-> <<>>, w |-> 0] ELSE s2
         IN WrapLoop(s3, Tail(runes), wd)

\* wrapRunes appending the segment under construction even when it is empty
wrapRunes_AppendsEmptyTail(ln, wd) ==
    IF wd <= 0 THEN <<ln>>
    ELSE IF ln = <<>> THEN << <<>> >>
    ELSE LET s == WrapLoop([out |-> <<>>, b |-> <<>>, w |-> 0], StringRunes(ln), wd) IN
         Append(s.out, s.b)

\* wrapRunes(line, width)
wrapRunes(ln, wd) ==
    IF wd <= 0 THEN <<ln>>
    ELSE IF ln = <<>> THEN << <<>> >>
    ELSE LET s == WrapLoop([out |-> <<>>, b |-> <<>>, w |-> 0], StringRunes(ln), wd) IN
         IF Len(s.b) > 0 \/ Len(s.out) = 0 THEN Append(s.out, s.b) ELSE s.out

\* tailRenderer.contentWrapped
contentWrapped(rr, wd) ==
    LET lines == logicalLines(rr) IN
    IF wd <= 0 THEN Join(lines)
    ELSE Join(Flatten([i \in 1..Len(lines) |-> wrapRunes(lines[i], wd)]))

----------------------------------------------------------------------------
(* Bounds of the explored runs. *)

MaxFed == 5        \* bytes ingested per renderer life, byte-stream runs
MaxChunk == 2      \* longest slice of one ingest call, byte-stream runs

(* Bytes the environment writes. *)
CharA == 97
CharB == 98
CharM == 109
Digit2 == 50
NTildeLead == 195      \* U+00F1 is C3 B1, visual width 1
NTildeCont == 177
AcuteLead == 204       \* U+0301 (combining acute) is CC 81, visual width 0
AcuteCont == 129
WideLead == 228        \* U+4E2D is E4 B8 AD, visual width 2
WideMid == 184
WideCont == 173

(* The characters they encode. *)
RuneA == 97
RuneNTilde == 241      \* U+00F1, width 1, two bytes
RuneAcute == 769       \* U+0301, width 0
RuneWide == 20013      \* U+4E2D, width 2

NTilde == <<NTildeLead, NTildeCont>>
Acute == <<AcuteLead, AcuteCont>>
Wide == <<WideLead, WideMid, WideCont>>

\* 'A' is text in the normal state and the cursor-up command after ESC [
StreamBytes == {CMD_A, LF, CR, ESC, LBRACKET, NTildeLead, NTildeCont}
StreamChunks == UNION {SeqsOfLen(StreamBytes, k) : k \in 1..MaxChunk}

----------------------------------------------------------------------------
(* State machine: a renderer fed by successive ingest calls. *)

NoRet == [newLines |-> <<>>, currentChanged |-> FALSE]

WrapIdle ==
    /\ line = <<>>
    /\ width = 0
    /\ segs = <<>>
    /\ wpc = "off"

FollIdle ==
    /\ fol = [path |-> "none"]
    /\ dirent = 0
    /\ disk = <<>>
    /\ pc = "off"
    /\ st = 0
    /\ fd = 0
    /\ out = [err |-> "none"]
    /\ fprev = [path |-> "none"]
    /\ absent = FALSE
    /\ label = "none"
    /\ nTrunc = 0
    /\ nWritten = 0
    /\ merged = [limit |-> 0]
    /\ applied = <<>>
    /\ io = [kind |-> "off"]
    /\ rotated = FALSE

UiIdle ==
    /\ ui = [selectedID |-> ""]
    /\ uimsg = [msg |-> "off"]

JobIdle ==
    /\ store = [order |-> <<>>]
    /\ sprev = [order |-> <<>>]
    /\ jop = [op |-> "off"]

\* r := newTailRenderer(limit) for one of the limits of the run
RendInit ==
    /\ \E limit \in cfg.limits : r = newTailRenderer(limit)
    /\ prev = r
    /\ chunk = <<>>
    /\ ret = NoRet
    /\ fed = <<>>
    /\ emitted = <<>>
    /\ nBulk = 0

RendIdle ==
    /\ r = newTailRenderer(0)
    /\ prev = r
    /\ chunk = <<>>
    /\ ret = NoRet
    /\ fed = <<>>
    /\ emitted = <<>>
    /\ nBulk = 0

\* a log of ActiveWindow - 1 lines "a", delivered to one ingest call
BulkChunk == Flatten([i \in 1..(ActiveWindow - 1) |-> <<CharA, LF>>])

\* newLines, currentChanged := r.ingest(c)
Ingest(c) ==
    /\ LET res == ingest(r, c) IN
       /\ r' = res.r
       /\ ret' = [newLines |-> res.newLines, currentChanged |-> res.changed]
       /\ emitted' = emitted \o res.newLines
    /\ prev' = r
    /\ chunk' = c
    /\ fed' = fed \o c
    /\ UNCHANGED <<cfg, jobVars, uiVars, wrapVars, follVars>>

\* an ingest call with one of the given byte slices
IngestChunk(chunks) ==
    \E c \in chunks :
        /\ Len(fed) - nBulk * Len(BulkChunk) + Len(c) <= cfg.maxFed
        /\ Ingest(c)
        /\ UNCHANGED nBulk

\* an ingest call with a whole log of ActiveWindow - 1 lines
IngestBulk ==
    /\ nBulk < cfg.maxBulk
    /\ Ingest(BulkChunk)
    /\ nBulk' = nBulk + 1

\* r.reset()
ResetRenderer ==
    /\ r' = reset(r)
    /\ prev' = reset(r)
    /\ chunk' = <<>>
    /\ ret' = NoRet
    /\ fed' = <<>>
    /\ emitted' = <<>>
    /\ nBulk' = 0
    /\ UNCHANGED <<cfg, jobVars, uiVars, wrapVars, follVars>>

Init ==
    /\ cfg = [limits |-> {TestLimit}, maxFed |-> MaxFed, maxBulk |-> 0]
    /\ RendInit
    /\ JobIdle
    /\ UiIdle
    /\ WrapIdle
    /\ FollIdle

Next == IngestChunk(StreamChunks) \/ ResetRenderer

Spec == Init /\ [][Next]_vars

\* the renderer a single ingest call with all bytes fed so far would leave
Whole == ingest(newTailRenderer(r.limit), fed)

(* C1: however the bytes fed so far were split into ingest calls (also      *)
(* inside a multi-byte character or inside an escape sequence), content()  *)
(* and the concatenated newLines equal those of one ingest call with the    *)
(* whole byte sequence on a fresh renderer.                                 *)
ChunkInvariance ==
    LET whole == Whole IN
    /\ content(r) = content(whole.r)
    /\ emitted = whole.newLines

\* a chunk boundary fell inside a multi-byte character that is now rendered
ChunkInvarianceWitness ==
    /\ Len(prev.pendingUTF8) = 1
    /\ Len(r.pendingUTF8) = 0
    /\ r.active[r.cursorLine + 1] # <<>>
    /\ Len(fed) > Len(chunk)
    /\ \E i \in 1..Len(r.active) : r.active[i] = <<RuneNTilde>>

----------------------------------------------------------------------------
(* Runs fed with plain text: whole characters of width 0, 1 and 2 and line  *)
(* feeds, one character per ingest call.                                    *)

MaxText == 5       \* bytes of text ingested per renderer life

TextChunks == {<<CharA>>, <<LF>>, Acute, Wide}

InitText ==
    /\ cfg = [limits |-> {1, TestLimit}, maxFed |-> MaxText, maxBulk |-> 0]
    /\ RendInit
    /\ JobIdle
    /\ UiIdle
    /\ WrapIdle
    /\ FollIdle

NextText == IngestChunk(TextChunks) \/ ResetRenderer

SpecText == InitText /\ [][NextText]_vars

\* number of line feeds in s
RECURSIVE CountLF(_)
CountLF(s) == IF s = <<>> THEN 0 ELSE (IF Head(s) = LF THEN 1 ELSE 0) + CountLF(Tail(s))

\* s is valid UTF-8 without CR, ESC or another control byte besides LF
IsPlainText(s) ==
    /\ RunesToString(StringRunes(s)) = s
    /\ \A i \in 1..Len(s) : s[i] = LF \/ (s[i] >= 32 /\ s[i] # 127)

(* C3: round trip.  When the bytes fed to a fresh renderer are a text of at *)
(* most limit lines, each ended by a line feed, without CR, ESC or other    *)
(* control bytes (lines may be empty and hold characters of width 0, 1 or   *)
(* 2), content() is that text without its final line feed.                  *)
RoundTrip ==
    (/\ fed # <<>>
     /\ fed[Len(fed)] = LF
     /\ IsPlainText(fed)
     /\ r.limit > 0
     /\ CountLF(fed) <= r.limit)
    => content(r) = Take(fed, Len(fed) - 1)

----------------------------------------------------------------------------
(* Runs with carriage-return overwrites: single bytes (among them ESC and   *)
(* the two bytes of a split character) and calls that deliver CR followed   *)
(* by whole single-width characters.                                        *)

MaxOverFed == 6    \* bytes ingested per renderer life, overwrite runs
MaxOverwrite == 2  \* most characters delivered after a CR in one call

OverwriteChars == {<<CharB>>, NTilde}
OverwriteChunks ==
    {<<CharA>>, <<LF>>, <<ESC>>, <<LBRACKET>>, <<NTildeLead>>, <<NTildeCont>>}
    \cup {<<CR>> \o Flatten(cs) : cs \in SeqsUpTo(OverwriteChars, MaxOverwrite)}

InitOverwrite ==
    /\ cfg = [limits |-> {TestLimit}, maxFed |-> MaxOverFed, maxBulk |-> 0]
    /\ RendInit
    /\ JobIdle
    /\ UiIdle
    /\ WrapIdle
    /\ FollIdle

NextOverwrite == IngestChunk(OverwriteChunks) \/ ResetRenderer

SpecOverwrite == InitOverwrite /\ [][NextOverwrite]_vars

\* the last call delivered CR followed by whole characters of width 1
IsOverwriteCall ==
    /\ chunk # <<>>
    /\ chunk[1] = CR
    /\ RunesToString(StringRunes(Tail(chunk))) = Tail(chunk)
    /\ \A i \in 1..Len(StringRunes(Tail(chunk))) : RuneWidth(StringRunes(Tail(chunk))[i]) = 1

\* the interpreter was in the normal state with no partial character buffered
\* and the cursor row held single-width characters only
OverwritePre ==
    /\ prev.pendingCSI = <<>>
    /\ prev.pendingUTF8 = <<>>
    /\ \A i \in 1..Len(prev.active[prev.cursorLine + 1]) :
           RuneWidth(prev.active[prev.cursorLine + 1][i]) = 1

(* C4: carriage-return overwrite keeps the tail.  When the cursor row holds *)
(* n single-width characters (interpreter in the normal state, no partial   *)
(* character buffered) and a call delivers CR followed by k <= n            *)
(* single-width characters, the row becomes those k characters followed by  *)
(* the old characters k..n-1; no line is emitted, no row is added and the   *)
(* number of rendered lines is unchanged.                                   *)
OverwriteKeepsTail ==
    LET old == prev.active[prev.cursorLine + 1]
        new == StringRunes(Tail(chunk))
    IN (IsOverwriteCall /\ OverwritePre /\ Len(new) <= Len(old))
       => /\ r.cursorLine = prev.cursorLine
          /\ r.active[r.cursorLine + 1] = new \o Drop(old, Len(new))
          /\ ret.newLines = <<>>
          /\ Len(r.active) = Len(prev.active)
          /\ Len(logicalLines(r)) = Len(logicalLines(prev))

\* a row of three or more characters had its first two overwritten
OverwriteKeepsTailWitness ==
    /\ IsOverwriteCall
    /\ OverwritePre
    /\ Len(StringRunes(Tail(chunk))) = 2
    /\ Len(prev.active[prev.cursorLine + 1]) >= 3
    /\ r.active[r.cursorLine + 1] # prev.active[prev.cursorLine + 1]

----------------------------------------------------------------------------
(* Runs with control sequences: single bytes, and calls that deliver one    *)
(* complete sequence ESC [ params final.                                    *)

MaxCsiFed == 7     \* bytes ingested per renderer life, control-sequence runs
MaxParams == 2     \* most parameter bytes of a delivered control sequence

ParamBytes == {DIGIT0, Digit2, SEMICOLON, MINUS}
FinalBytes == {CMD_A, CharM}
CsiChunks ==
    {<<CharA>>, <<LF>>, <<ESC>>, <<LBRACKET>>, <<NTildeLead>>}
    \cup {<<ESC, LBRACKET>> \o ps \o <<fb>> : ps \in SeqsUpTo(ParamBytes, MaxParams),
                                              fb \in FinalBytes}

InitCsi ==
    /\ cfg = [limits |-> {TestLimit}, maxFed |-> MaxCsiFed, maxBulk |-> 0]
    /\ RendInit
    /\ JobIdle
    /\ UiIdle
    /\ WrapIdle
    /\ FollIdle

NextCsi == IngestChunk(CsiChunks) \/ ResetRenderer

SpecCsi == InitCsi /\ [][NextCsi]_vars

\* the last call delivered exactly one sequence ESC [ params final, the
\* parameter bytes all outside 0x40-0x7E
IsCsiCall ==
    /\ Len(chunk) >= 3
    /\ chunk[1] = ESC
    /\ chunk[2] = LBRACKET
    /\ chunk[Len(chunk)] \in CSI_FINAL_LO..CSI_FINAL_HI
    /\ \A i \in 3..(Len(chunk) - 1) : chunk[i] \notin CSI_FINAL_LO..CSI_FINAL_HI

CallParams == SubSeq(chunk, 3, Len(chunk) - 1)
CallFinal == chunk[Len(chunk)]

\* the bytes of s before its first ';'
RECURSIVE UpToSemicolon(_)
UpToSemicolon(s) ==
    IF s = <<>> \/ Head(s) = SEMICOLON THEN <<>> ELSE <<Head(s)>> \o UpToSemicolon(Tail(s))

\* value of a decimal numeral, 0 when s is not one
RECURSIVE Numeral(_)
Numeral(s) ==
    IF s = <<>> THEN 0
    ELSE IF \E i \in 1..Len(s) : s[i] < DIGIT0 \/ s[i] > DIGIT9 THEN 0
    ELSE Numeral(Take(s, Len(s) - 1)) * 10 + (s[Len(s)] - DIGIT0)

\* the count the claim prescribes: the first parameter when it is a positive
\* integer, otherwise 1
ClaimedCount(params) ==
    LET first == UpToSemicolon(params)
        unsigned == IF first # <<>> /\ first[1] = PLUS THEN Tail(first) ELSE first
    IN IF Numeral(unsigned) > 0 THEN Numeral(unsigned) ELSE 1

SwallowedWithoutEffect ==
    /\ r.history = prev.history
    /\ r.active = prev.active
    /\ r.cursorLine = prev.cursorLine
    /\ r.cursorCol = prev.cursorCol
    /\ ret.newLines = <<>>
    /\ ret.currentChanged = FALSE
    /\ r.pendingCSI = <<>>

(* C7 as stated: a complete sequence ESC [ params final, final other than   *)
(* 'A', ingested in ANY renderer state, leaves history, rows and cursor     *)
(* unchanged, adds no line, reports currentChanged = false and leaves the   *)
(* interpreter in the normal state.                                         *)
UnrecognizedSwallowedAnyState ==
    (IsCsiCall /\ CallFinal # CMD_A) => SwallowedWithoutEffect

(* C7 amended: the same, for every renderer state in which no control       *)
(* sequence is pending (the interpreter is in the normal state).            *)
UnrecognizedSwallowed ==
    (IsCsiCall /\ CallFinal # CMD_A /\ prev.pendingCSI = <<>>) => SwallowedWithoutEffect

\* an unrecognised sequence with parameters arrived after text and a line feed
UnrecognizedSwallowedWitness ==
    /\ IsCsiCall
    /\ CallFinal = CharM
    /\ CallParams # <<>>
    /\ prev.pendingCSI = <<>>
    /\ prev.cursorLine >= 1
    /\ \E i \in 1..Len(prev.active) : prev.active[i] # <<>>

----------------------------------------------------------------------------
(* Runs with long streams: whole logs of ActiveWindow - 1 lines delivered   *)
(* in one call, between a few short calls, so that the active window fills  *)
(* and compaction moves rows to history.                                    *)

MaxBulk == 2       \* whole logs ingested per renderer life
MaxSmall == 3      \* bytes of the short calls per renderer life

LongChunks == {<<CharA>>, <<LF>>, <<ESC, LBRACKET, CMD_A>>}
LongLimits == {0, 1, TestLimit, ActiveWindow, ActiveWindow + 2}

InitLong ==
    /\ cfg = [limits |-> LongLimits, maxFed |-> MaxSmall, maxBulk |-> MaxBulk]
    /\ RendInit
    /\ JobIdle
    /\ UiIdle
    /\ WrapIdle
    /\ FollIdle

NextLong == IngestChunk(LongChunks) \/ IngestBulk \/ ResetRenderer

SpecLong == InitLong /\ [][NextLong]_vars

(* C2: with a positive limit, logicalLines() never returns more than limit  *)
(* lines, after any sequence of ingest calls.                               *)
LogicalLinesBounded ==
    r.limit > 0 => Len(logicalLines(r)) <= r.limit

\* more rows are held than the limit allows to render
LogicalLinesBoundedWitness ==
    /\ r.limit > 0
    /\ chunk # <<>>
    /\ Len(r.history) + Len(TrimTrailingEmpty(r.active)) > r.limit
    /\ Len(logicalLines(r)) = r.limit

\* the last call delivered a single line feed to a renderer whose cursor was
\* on the last active row
IsLineFeedAtEnd ==
    /\ chunk = <<LF>>
    /\ prev.cursorLine = Len(prev.active) - 1

HasRoom(rr) ==
    \/ rr.limit <= 0
    \/ Len(rr.active) < rr.activeWindow
    \/ Len(rr.history) + Len(rr.active) < rr.limit

----------------------------------------------------------------------------
(* wrapRunes applied to logical lines: strings of characters of width 0, 1  *)
(* and 2, as lineBuffer.String produces them.                               *)

MaxLineLen == 4    \* characters of the wrapped line
MaxWidth == 3      \* largest wrap width

LineRunes == {RuneA, RuneNTilde, RuneAcute, RuneWide}

InitWrap ==
    /\ cfg = [limits |-> {0}, maxFed |-> 0, maxBulk |-> 0]
    /\ RendIdle
    /\ JobIdle
    /\ UiIdle
    /\ FollIdle
    /\ \E rs \in SeqsUpTo(LineRunes, MaxLineLen) : line = String(rs)
    /\ width \in 0..MaxWidth
    /\ segs = <<>>
    /\ wpc = "ready"

\* segs := wrapRunes(line, width)
WrapLine ==
    /\ wpc = "ready"
    /\ segs' = wrapRunes(line, width)
    /\ wpc' = "done"
    /\ UNCHANGED <<cfg, jobVars, uiVars, line, width, rendVars, follVars>>

NextWrap == WrapLine

SpecWrap == InitWrap /\ [][NextWrap]_vars

\* visual width of a string, each character counted as wrapRunes counts it
SegWidth(seg) == visualWidth(StringRunes(seg))

(* C8 as stated: for every logical line and every positive width, no       *)
(* segment returned by wrapRunes is wider than width, also when the line    *)
(* holds characters of visual width 2.                                      *)
SegmentsWithinWidthAlways ==
    (wpc = "done" /\ width > 0) => \A i \in 1..Len(segs) : SegWidth(segs[i]) <= width

(* C8 amended: no segment is wider than width, except a segment that is a   *)
(* single character which is itself wider than width (a width-2 character  *)
(* wrapped at width 1).                                                     *)
SegmentsWithinWidth ==
    (wpc = "done" /\ width > 0)
    => \A i \in 1..Len(segs) :
          \/ SegWidth(segs[i]) <= width
          \/ Len(StringRunes(segs[i])) = 1 /\ CellWidth(StringRunes(segs[i])[1]) > width

\* a wide character did not fit behind a narrow one and started a new segment
SegmentsWithinWidthWitness ==
    /\ wpc = "done"
    /\ width = 2
    /\ Len(segs) >= 3
    /\ segs[1] = <<CharA>>
    /\ segs[2] = Wide

(* C9: soft wrap loses nothing.  For every logical line and positive width  *)
(* the segments concatenated in order are the line; an empty line gives     *)
(* exactly one empty segment, a non-empty line no empty segment.            *)
WrapLosesNothing ==
    (wpc = "done" /\ width > 0)
    => /\ Flatten(segs) = line
       /\ line = <<>> => segs = << <<>> >>
       /\ line # <<>> => \A i \in 1..Len(segs) : segs[i] # <<>>

\* a line whose width is twice the wrap width gave two full segments
WrapLosesNothingWitness ==
    /\ wpc = "done"
    /\ width = 2
    /\ SegWidth(line) = 4
    /\ Len(segs) = 2
    /\ SegWidth(segs[1]) = 2
    /\ SegWidth(segs[2]) = 2

----------------------------------------------------------------------------
(* logFollower *)

streamOut == "OUT"
streamErr == "ERR"

LogPath == "slurm_logs/1.out"

\* streamChunk{Label: label}
LabelChunk(lbl) ==
    [Label |-> lbl, NewLines |-> <<>>, CurrentLine |-> <<>>,
     CurrentChanged |-> FALSE, Missing |-> FALSE]

\* newLogFollower(path)
newLogFollower(path) ==
    [path |-> path, offset |-> 0, initialized |-> FALSE,
     renderer |-> newTailRenderer(renderLineLimit), missing |-> FALSE]

\* logFollower.reset(path)
followerReset(f, path) ==
    [f EXCEPT !.path = path, !.offset = 0, !.initialized = FALSE,
              !.renderer = reset(@), !.missing = FALSE]

\* the absence branch treating absence like a truncation
pollMissing_Resets(f, lbl) ==
    [f |-> [f EXCEPT !.missing = TRUE, !.offset = 0, !.initialized = FALSE,
                     !.renderer = reset(@)],
     chunk |-> [LabelChunk(lbl) EXCEPT !.Missing = TRUE]]

\* poll, os.Stat reported that the file does not exist: [f, chunk]
pollMissing(f, lbl) ==
    [f |-> [f EXCEPT !.missing = TRUE],
     chunk |-> [LabelChunk(lbl) EXCEPT !.Missing = TRUE]]

\* the truncation check forgetting the interpreter
pollCheckTruncated_KeepsRenderer(f, size) ==
    IF size < f.offset THEN [f EXCEPT !.offset = 0, !.initialized = FALSE] ELSE f

\* poll, the truncation check after a successful os.Stat
pollCheckTruncated(f, size) ==
    IF size < f.offset
    THEN [f EXCEPT !.offset = 0, !.initialized = FALSE, !.renderer = reset(@)]
    ELSE f

\* strings.IndexByte(buf, c), -1 when c does not occur
IndexByte(buf, c) ==
    IF \A i \in 1..Len(buf) : buf[i] # c THEN 0 - 1
    ELSE (CHOOSE i \in 1..Len(buf) : buf[i] = c /\ \A j \in 1..(i - 1) : buf[j] # c) - 1

\* where the bootstrap read starts in a file of the given size; budget is
\* initialTailBytes
bootstrapStart(budget, size) ==
    IF size > budget THEN size - budget ELSE 0

\* poll, first read of the file: [f, chunk, handed]; data is what the opened
\* file holds when it is read, handed what the interpreter is given
pollBootstrap(budget, f, lbl, size, data) ==
    LET start == bootstrapStart(budget, size)
        buf0 == Drop(data, start)
        idx == IndexByte(buf0, LF)
        buf == IF start > 0 /\ idx >= 0 /\ idx + 1 < Len(buf0) THEN Drop(buf0, idx + 1) ELSE buf0
        res == ingest(f.renderer, buf)
    IN [f |-> [f EXCEPT !.renderer = res.r, !.offset = size,
                        !.initialized = TRUE, !.missing = FALSE],
        chunk |-> [LabelChunk(lbl) EXCEPT !.NewLines = res.newLines,
                                          !.CurrentChanged = res.changed,
                                          !.CurrentLine = currentLine(res.r)],
        handed |-> buf]

\* the unchanged branch reporting the current line as changed
pollUnchanged_MarksChanged(f, lbl) ==
    [f |-> f,
     chunk |-> [LabelChunk(lbl) EXCEPT !.CurrentLine = currentLine(f.renderer),
                                       !.CurrentChanged = TRUE]]

\* poll, the size equals the offset: [f, chunk]
pollUnchanged(f, lbl) ==
    [f |-> f,
     chunk |-> [LabelChunk(lbl) EXCEPT !.CurrentLine = currentLine(f.renderer)]]

\* the delta read leaving offset where it was
pollDelta_KeepsOffset(f, lbl, size, data) ==
    LET buf == Drop(data, f.offset)
        res == ingest(f.renderer, buf)
    IN [f |-> [f EXCEPT !.renderer = res.r, !.missing = FALSE],
        chunk |-> [LabelChunk(lbl) EXCEPT !.NewLines = res.newLines,
                                          !.CurrentChanged = res.changed,
                                          !.CurrentLine = currentLine(res.r)],
        handed |-> buf]

\* poll, read from the offset to the end of the file: [f, chunk, handed]
pollDelta(f, lbl, size, data) ==
    LET buf == Drop(data, f.offset)
        res == ingest(f.renderer, buf)
    IN [f |-> [f EXCEPT !.renderer = res.r, !.offset = size, !.missing = FALSE],
        chunk |-> [LabelChunk(lbl) EXCEPT !.NewLines = res.newLines,
                                          !.CurrentChanged = res.changed,
                                          !.CurrentLine = currentLine(res.r)],
        handed |-> buf]

----------------------------------------------------------------------------
(* mergedBuffer *)

\* newMergedBuffer(limit)
newMergedBuffer(limit) ==
    [lines |-> <<>>, limit |-> limit, outCurrent |-> <<>>, errCurrent |-> <<>>]

\* mergedBuffer.reset()
mergedReset(m) ==
    [m EXCEPT !.lines = <<>>, !.outCurrent = <<>>, !.errCurrent = <<>>]

\* the bytes of a stream label: "OUT", "ERR"
LabelBytes(lbl) == IF lbl = streamOut THEN <<79, 85, 84>> ELSE <<69, 82, 82>>

\* fmt.Sprintf("[%s] %s", label, line)
Labelled(lbl, ln) == <<LBRACKET>> \o LabelBytes(lbl) \o <<93, SPACE>> \o ln

\* the addLine variant that trims before it appends
addLine_TrimsFirst(m, lbl, ln) ==
    [m EXCEPT !.lines = Append(IF Len(@) > m.limit THEN Drop(@, Len(@) - m.limit) ELSE @,
                               Labelled(lbl, ln))]

\* mergedBuffer.addLine(label, line)
addLine(m, lbl, ln) ==
    LET ls == Append(m.lines, Labelled(lbl, ln))
    IN [m EXCEPT !.lines = IF Len(ls) > m.limit THEN Drop(ls, Len(ls) - m.limit) ELSE ls]

\* the loop of applyChunk taking chunk.NewLines from the last to the first
RECURSIVE addLines_LastFirst(_, _, _)
addLines_LastFirst(m, lbl, lns) ==
    IF lns = <<>> THEN m
    ELSE addLines_LastFirst(addLine(m, lbl, lns[Len(lns)]), lbl, SubSeq(lns, 1, Len(lns) - 1))

\* the loop of applyChunk over chunk.NewLines
RECURSIVE addLines(_, _, _)
addLines(m, lbl, lns) ==
    IF lns = <<>> THEN m ELSE addLines(addLine(m, lbl, Head(lns)), lbl, Tail(lns))

\* mergedBuffer.applyChunk(chunk)
applyChunk(m, c) ==
    LET m1 == addLines(m, c.Label, c.NewLines)
    IN IF ~c.CurrentChanged THEN m1
       ELSE IF c.Label = streamOut THEN [m1 EXCEPT !.outCurrent = c.CurrentLine]
       ELSE IF c.Label = streamErr THEN [m1 EXCEPT !.errCurrent = c.CurrentLine]
       ELSE m1

\* the entries applyChunk adds for a chunk, in the chunk's order
Entries(c) == [i \in 1..Len(c.NewLines) |-> Labelled(c.Label, c.NewLines[i])]

\* the in-progress slot of a label
Slot(m, lbl) == IF lbl = streamOut THEN m.outCurrent ELSE m.errCurrent

----------------------------------------------------------------------------
(* State machine: one follower polling one path, while the file it names is *)
(* created, appended to, truncated and removed.  A poll is the steps        *)
(* os.Stat, os.Open and the read; the file can change between them.  The    *)
(* caller applies every returned chunk to its mergedBuffer.                 *)

MaxWritten == 3    \* bytes written under the path, over all files
MaxFiles == 2      \* files created under the path, one after the other
MaxTrunc == 1      \* truncations of a file
SmallTail == 2     \* stands for initialTailBytes: a budget that files of the run exceed

FileBytes == {CharA, LF}

\* what a poll found and read: the size os.Stat reported, the content of the
\* opened file when it was read, and the bytes given to the interpreter
IO(kind, size, data, handed) ==
    [kind |-> kind, size |-> size, data |-> data, handed |-> handed]

NoIO == IO("none", 0, <<>>, <<>>)

\* no poll has returned yet
NoPoll == [chunk |-> LabelChunk("none"), err |-> "nil"]

InitFollower ==
    /\ cfg = [limits |-> {0}, maxFed |-> 0, maxBulk |-> 0]
    /\ RendIdle
    /\ JobIdle
    /\ UiIdle
    /\ WrapIdle
    /\ fol = newLogFollower(LogPath)
    /\ dirent = 0
    /\ disk = <<>>
    /\ pc = "idle"
    /\ st = 0
    /\ fd = 0
    /\ out = NoPoll
    /\ fprev = fol
    /\ absent = FALSE
    /\ label \in {streamOut, streamErr}
    /\ nTrunc = 0
    /\ nWritten = 0
    /\ merged = newMergedBuffer(renderLineLimit)
    /\ applied = <<>>
    /\ io = NoIO
    /\ rotated = FALSE

\* the job's output file appears, empty
FileCreate ==
    /\ pc # "returned"
    /\ dirent = 0
    /\ Len(disk) < MaxFiles
    /\ disk' = Append(disk, <<>>)
    /\ dirent' = Len(disk) + 1
    /\ UNCHANGED <<cfg, jobVars, uiVars, rendVars, wrapVars, fol, pc, st, fd, out, fprev, absent, label,
                   nTrunc, nWritten, merged, applied, io, rotated>>

\* the job writes one byte
FileAppend ==
    /\ pc # "returned"
    /\ dirent # 0
    /\ nWritten < MaxWritten
    /\ \E b \in FileBytes : disk' = [disk EXCEPT ![dirent] = Append(@, b)]
    /\ nWritten' = nWritten + 1
    /\ UNCHANGED <<cfg, jobVars, uiVars, rendVars, wrapVars, fol, dirent, pc, st, fd, out, fprev, absent,
                   label, nTrunc, merged, applied, io, rotated>>

\* the file is truncated to length 0
FileTruncate ==
    /\ pc # "returned"
    /\ dirent # 0
    /\ disk[dirent] # <<>>
    /\ nTrunc < MaxTrunc
    /\ disk' = [disk EXCEPT ![dirent] = <<>>]
    /\ nTrunc' = nTrunc + 1
    /\ rotated' = (rotated \/ pc = "idle")
    /\ UNCHANGED <<cfg, jobVars, uiVars, rendVars, wrapVars, fol, dirent, pc, st, fd, out, fprev, absent,
                   label, nWritten, merged, applied, io>>

\* the file is removed; its content goes with its last reference
FileRemove ==
    /\ pc # "returned"
    /\ dirent # 0
    /\ dirent' = 0
    /\ disk' = IF fd = dirent THEN disk ELSE [disk EXCEPT ![dirent] = <<>>]
    /\ rotated' = (rotated \/ pc = "idle")
    /\ UNCHANGED <<cfg, jobVars, uiVars, rendVars, wrapVars, fol, pc, st, fd, out, fprev, absent, label,
                   nTrunc, nWritten, merged, applied, io>>

\* poll returns (chunk, err); the deferred file.Close() releases the file
PollReturn(f, c, e, missing, i) ==
    /\ fol' = f
    /\ out' = [chunk |-> c, err |-> e]
    /\ absent' = missing
    /\ io' = i
    /\ pc' = "returned"
    /\ st' = 0
    /\ fd' = 0
    /\ disk' = IF fd # 0 /\ fd # dirent THEN [disk EXCEPT ![fd] = <<>>] ELSE disk

\* poll: os.Stat and the truncation check
PollStat ==
    /\ pc = "idle"
    /\ fprev' = fol
    /\ \/ /\ dirent = 0
          /\ LET m == pollMissing(fol, label) IN PollReturn(m.f, m.chunk, "nil", TRUE, NoIO)
       \/ /\ dirent # 0
          /\ PollReturn(fol, LabelChunk(label), "stat", FALSE, NoIO)
       \/ /\ dirent # 0
          /\ st' = Len(disk[dirent])
          /\ fol' = pollCheckTruncated(fol, Len(disk[dirent]))
          /\ pc' = "open"
          /\ UNCHANGED <<fd, out, absent, disk, io>>
    /\ UNCHANGED <<cfg, jobVars, uiVars, rendVars, wrapVars, dirent, label, nTrunc, nWritten, merged, applied,
                   rotated>>

\* poll: os.Open
PollOpen ==
    /\ pc = "open"
    /\ \/ PollReturn(fol, LabelChunk(label), "open", FALSE, IO("failed", st, <<>>, <<>>))
       \/ /\ dirent # 0
          /\ fd' = dirent
          /\ pc' = "read"
          /\ UNCHANGED <<fol, out, absent, disk, st, io>>
    /\ UNCHANGED <<cfg, jobVars, uiVars, rendVars, wrapVars, dirent, fprev, label, nTrunc, nWritten, merged, applied,
                   rotated>>

\* poll: seek, read and ingest
PollRead ==
    /\ pc = "read"
    /\ \/ /\ ~fol.initialized
          /\ \/ \E e \in {"seek", "read"} :
                    PollReturn(fol, LabelChunk(label), e, FALSE, IO("failed", st, <<>>, <<>>))
             \/ \E b \in {pollBootstrap(SmallTail, fol, label, st, disk[fd])} :
                PollReturn(b.f, b.chunk, "nil", FALSE, IO("bootstrap", st, disk[fd], b.handed))
       \/ /\ fol.initialized
          /\ st = fol.offset
          /\ LET u == pollUnchanged(fol, label) IN
             PollReturn(u.f, u.chunk, "nil", FALSE, IO("unchanged", st, disk[fd], <<>>))
       \/ /\ fol.initialized
          /\ st # fol.offset
          /\ \/ \E e \in {"seek", "read"} :
                    PollReturn(fol, LabelChunk(label), e, FALSE, IO("failed", st, <<>>, <<>>))
             \/ \E d \in {pollDelta(fol, label, st, disk[fd])} :
                PollReturn(d.f, d.chunk, "nil", FALSE, IO("delta", st, disk[fd], d.handed))
    /\ UNCHANGED <<cfg, jobVars, uiVars, rendVars, wrapVars, dirent, fprev, label, nTrunc, nWritten, merged, applied,
                   rotated>>

\* pollSelectedLogs applies the chunk the poll returned to the merged
\* buffer; the file does not change between the return of poll and this
\* step, which reads no file
PollTaken ==
    /\ pc = "returned"
    /\ pc' = "idle"
    /\ merged' = applyChunk(merged, out.chunk)
    /\ applied' = applied \o Entries(out.chunk)
    /\ out' = NoPoll
    /\ absent' = FALSE
    /\ fprev' = fol
    /\ io' = NoIO
    /\ rotated' = FALSE
    /\ UNCHANGED <<cfg, jobVars, uiVars, rendVars, wrapVars, fol, dirent, disk, st, fd, label, nTrunc,
                   nWritten>>

\* switchToJob, between two polls: f.reset(path) and mergedBuf.reset()
FollowerReset ==
    /\ pc = "idle"
    /\ fol' = followerReset(fol, LogPath)
    /\ fprev' = followerReset(fol, LogPath)
    /\ merged' = mergedReset(merged)
    /\ applied' = <<>>
    /\ rotated' = FALSE
    /\ UNCHANGED <<cfg, jobVars, uiVars, rendVars, wrapVars, dirent, disk, pc, st, fd, out, absent, label,
                   nTrunc, nWritten, io>>

NextFollower ==
    \/ FileCreate
    \/ FileAppend
    \/ FileTruncate
    \/ FileRemove
    \/ PollStat
    \/ PollOpen
    \/ PollRead
    \/ PollTaken
    \/ FollowerReset

SpecFollower == InitFollower /\ [][NextFollower]_vars

\* a poll has just returned and reported the file absent
PolledAbsent == pc = "returned" /\ absent

(* C10: a poll that finds no file under the path returns a chunk with       *)
(* Missing = true, no new lines, CurrentChanged = false and a nil error,    *)
(* and leaves offset, initialized and the interpreter as they were; only    *)
(* missing becomes true.  This holds for every such poll.                   *)
MissingPollChangesNothing ==
    PolledAbsent
    => /\ out.err = "nil"
       /\ out.chunk.Missing = TRUE
       /\ out.chunk.NewLines = <<>>
       /\ out.chunk.CurrentChanged = FALSE
       /\ out.chunk.Label = label
       /\ fol.missing = TRUE
       /\ fol.offset = fprev.offset
       /\ fol.initialized = fprev.initialized
       /\ fol.renderer = fprev.renderer
       /\ fol.path = fprev.path

\* the file was read, then removed, and two polls in a row found it absent
MissingPollChangesNothingWitness ==
    /\ PolledAbsent
    /\ fprev.missing
    /\ fprev.initialized
    /\ fprev.offset > 0
    /\ content(fprev.renderer) # <<>>
    /\ fol.offset = fprev.offset

\* a poll has just returned without error after reading the file for the
\* first time, or for the first time again
PolledBootstrap == pc = "returned" /\ out.err = "nil" /\ io.kind = "bootstrap"

\* the buffer a bootstrap read returns: the file from the seek position on
ReadBuffer == Drop(io.data, bootstrapStart(SmallTail, io.size))

\* s without its bytes up to and including the first line feed; nothing is
\* left of an s without line feed
AfterFirstLF(s) == IF IndexByte(s, LF) >= 0 THEN Drop(s, IndexByte(s, LF) + 1) ELSE <<>>

(* C11: clean line boundary on bootstrap.  On the first poll of a file      *)
(* larger than the initial-tail budget, the bytes up to and including the   *)
(* first line feed of the read buffer are discarded, whatever the file      *)
(* holds: the interpreter is given only what follows that line feed.        *)
BootstrapStartsAtLine ==
    (PolledBootstrap /\ io.size > SmallTail) => io.handed = AfterFirstLF(ReadBuffer)

\* a poll has just returned that found the file smaller than the offset
PolledTruncated ==
    /\ pc = "returned"
    /\ io.kind \in {"bootstrap", "failed"}
    /\ io.size < fprev.offset

\* what a newly created follower's first poll gives that finds the same
\* size, reads the same content and ends with the same error: [f, chunk]
FirstPoll ==
    IF out.err = "nil"
    THEN LET b == pollBootstrap(SmallTail, newLogFollower(fprev.path), label, io.size, io.data)
         IN [f |-> b.f, chunk |-> b.chunk]
    ELSE [f |-> newLogFollower(fprev.path), chunk |-> LabelChunk(label)]

(* C12 as stated: when the file is smaller than the recorded offset, the    *)
(* chunk returned and the follower left behind (offset, initialized,        *)
(* missing, interpreter) are those of a new follower polling the same file  *)
(* for the first time, after any prior history of polls.                    *)
TruncationEqualsFirstPollAlways ==
    PolledTruncated => (fol = FirstPoll.f /\ out.chunk = FirstPoll.chunk)

(* C12 amended: the same when the poll returns no error.  When it returns   *)
(* an error, the chunk, offset, initialized and the interpreter are those   *)
(* of the new follower, while missing keeps the value it had.               *)
TruncationEqualsFirstPoll ==
    PolledTruncated
    => /\ out.chunk = FirstPoll.chunk
       /\ fol = IF out.err = "nil" THEN FirstPoll.f
                ELSE [FirstPoll.f EXCEPT !.missing = fprev.missing]

\* a follower that had rendered a line and an in-progress row found the
\* file cut down to fewer bytes, read it again from the start and rendered
\* its content
TruncationEqualsFirstPollWitness ==
    /\ PolledTruncated
    /\ out.err = "nil"
    /\ fprev.renderer.history # <<>> \/ Len(fprev.renderer.active) > 1
    /\ io.size > 0
    /\ io.handed # <<>>
    /\ fol.offset = io.size
    /\ content(fol.renderer) # content(fprev.renderer)

\* a poll has just returned without error, and before it started the file
\* was truncated, or removed and created again
PolledRotated ==
    /\ pc = "returned"
    /\ rotated
    /\ ~absent
    /\ out.err = "nil"
    /\ io.kind \in {"bootstrap", "unchanged", "delta"}

(* C13: truncation or rotation is always detected.  When the file was       *)
(* truncated or replaced between two polls, the later poll resets offset    *)
(* and interpreter and reads the file as a first poll does, whatever the    *)
(* size of the file is by then.                                             *)
RotationDetected ==
    PolledRotated => fol = FirstPoll.f

----------------------------------------------------------------------------
(* State machine: a mergedBuffer to which chunks of both streams are        *)
(* applied, and which is reset.                                             *)

MaxMergedLimit == 2    \* largest limit of the merged buffer
MaxNewLines == 2       \* most finalized lines in one chunk
MaxApplied == 4        \* most entries added between two resets

MergedLines == {<<>>, <<CharA>>}

\* the chunks a poll can return: a label, finalized lines, and the current
\* line when it changed
MergedChunks ==
    {[Label |-> lbl, NewLines |-> lns, CurrentLine |-> cur,
      CurrentChanged |-> chg, Missing |-> FALSE] :
        lbl \in {streamOut, streamErr}, lns \in SeqsUpTo(MergedLines, MaxNewLines),
        cur \in MergedLines, chg \in BOOLEAN}

InitMerged ==
    /\ cfg = [limits |-> {0}, maxFed |-> 0, maxBulk |-> 0]
    /\ RendIdle
    /\ JobIdle
    /\ UiIdle
    /\ WrapIdle
    /\ fol = [path |-> "none"]
    /\ dirent = 0
    /\ disk = <<>>
    /\ pc = "merge"
    /\ st = 0
    /\ fd = 0
    /\ out = NoPoll
    /\ fprev = [path |-> "none"]
    /\ absent = FALSE
    /\ label = "none"
    /\ nTrunc = 0
    /\ nWritten = 0
    /\ \E limit \in 0..MaxMergedLimit : merged = newMergedBuffer(limit)
    /\ applied = <<>>
    /\ io = [kind |-> "off"]
    /\ rotated = FALSE

\* m.applyChunk(c)
ApplyChunk ==
    \E c \in MergedChunks :
        /\ Len(applied) + Len(c.NewLines) <= MaxApplied
        /\ merged' = applyChunk(merged, c)
        /\ applied' = applied \o Entries(c)
        /\ out' = [chunk |-> c, err |-> "nil"]
        /\ UNCHANGED <<cfg, jobVars, uiVars, rendVars, wrapVars, fol, dirent, disk, pc, st, fd, fprev, absent,
                       label, nTrunc, nWritten, io, rotated>>

\* m.reset()
MergedReset ==
    /\ merged' = mergedReset(merged)
    /\ applied' = <<>>
    /\ out' = NoPoll
    /\ UNCHANGED <<cfg, jobVars, uiVars, rendVars, wrapVars, fol, dirent, disk, pc, st, fd, fprev, absent,
                   label, nTrunc, nWritten, io, rotated>>

NextMerged == ApplyChunk \/ MergedReset

SpecMerged == InitMerged /\ [][NextMerged]_vars

(* C14: a merged buffer created with limit >= 0 never stores more than      *)
(* limit finalized lines, after any sequence of applyChunk and reset calls. *)
MergedLinesBounded == Len(merged.lines) <= merged.limit

\* a chunk of two lines was applied to a buffer of limit 1, which kept the
\* second
MergedLinesBoundedWitness ==
    /\ merged.limit = 1
    /\ Len(out.chunk.NewLines) = 2
    /\ merged.lines = <<Labelled(out.chunk.Label, out.chunk.NewLines[2])>>
    /\ out.chunk.NewLines[1] # out.chunk.NewLines[2]

\* a poll has just returned that found the file present
PolledPresent == pc = "returned" /\ ~absent

(* C15: in-progress slots are current.  When every chunk a poll returns is  *)
(* applied to the merged buffer, then after each poll that found the file   *)
(* present the slot of the follower's label equals currentLine() of the     *)
(* follower's interpreter, for every history of growth and truncation.      *)
SlotIsCurrent ==
    PolledPresent => Slot(applyChunk(merged, out.chunk), label) = currentLine(fol.renderer)

----------------------------------------------------------------------------
(* JobStore (src/jobs.go).  A Job is reduced to its ID and State, the two  *)
(* fields the store looks at; a JobRecord to Job, Terminal and Dismissed   *)
(* (FirstSeen and LastSeen are written and never read by the store).       *)
(* records is a function whose domain is the set of known job IDs.         *)

NewJobStore == [records |-> <<>>, order |-> <<>>]

isActiveState(state) == state = "RUNNING" \/ state = "PENDING"

isTerminalState(state) ==
    state \in {"COMPLETED", "FAILED", "CANCELLED", "TIMEOUT", "NODE_FAIL",
               "OUT_OF_MEMORY", "PREEMPTED", "BOOT_FAIL", "DEADLINE"}

\* one iteration of ApplySnapshot's first loop
applyIncoming(s, incoming) ==
    LET exists == incoming.ID \in DOMAIN s.records
        rec == IF exists THEN s.records[incoming.ID]
               ELSE [Job |-> incoming, Terminal |-> FALSE, Dismissed |-> FALSE]
        upd == [rec EXCEPT !.Job = incoming, !.Terminal = isTerminalState(incoming.State)]
    IN  [records |-> (incoming.ID :> upd) @@ s.records,
         order |-> IF exists THEN s.order ELSE Append(s.order, incoming.ID)]

RECURSIVE applyAllIncoming(_, _)
applyAllIncoming(s, jobs) ==
    IF jobs = <<>> THEN s
    ELSE applyAllIncoming(applyIncoming(s, Head(jobs)), Tail(jobs))

\* the seen map ApplySnapshot builds
seenIDs(jobs) == {jobs[i].ID : i \in 1..Len(jobs)}

\* ApplySnapshot without its second loop: a job missing from the snapshot
\* keeps its state
ApplySnapshot_KeepsMissing(s, jobs) == applyAllIncoming(s, jobs)

\* s.ApplySnapshot(jobs, now)
ApplySnapshot(s, jobs) ==
    LET t == applyAllIncoming(s, jobs)
        seen == seenIDs(jobs)
    IN  [t EXCEPT !.records =
            [id \in DOMAIN t.records |->
                IF id \notin seen /\ ~t.records[id].Terminal
                THEN [t.records[id] EXCEPT !.Job.State = "COMPLETED", !.Terminal = TRUE]
                ELSE t.records[id]]]

\* s.VisibleJobs()
VisibleJobs(s) ==
    LET keep(id) == id \in DOMAIN s.records /\ ~s.records[id].Dismissed
        ids == SelectSeq(s.order, keep)
    IN  [i \in 1..Len(ids) |-> s.records[ids[i]].Job]

\* DismissIfTerminal dismissing every known job, terminal or not
DismissIfTerminal_Any(s, jobID) ==
    IF jobID \notin DOMAIN s.records
    THEN [s |-> s, ret |-> FALSE]
    ELSE [s |-> [s EXCEPT !.records[jobID].Dismissed = TRUE], ret |-> TRUE]

\* s.DismissIfTerminal(jobID): the store left behind and the value returned
DismissIfTerminal(s, jobID) ==
    IF jobID \notin DOMAIN s.records \/ ~s.records[jobID].Terminal
    THEN [s |-> s, ret |-> FALSE]
    ELSE [s |-> [s EXCEPT !.records[jobID].Dismissed = TRUE], ret |-> TRUE]

\* s.ClearDismissedAndTerminal()
ClearDismissedAndTerminal(s) ==
    [s EXCEPT !.records =
        [id \in DOMAIN s.records |->
            IF s.records[id].Terminal THEN [s.records[id] EXCEPT !.Dismissed = TRUE]
            ELSE s.records[id]]]

----------------------------------------------------------------------------
(* State machine: a JobStore receiving squeue snapshots and dismissals. *)

MaxSnapshot == 2       \* most jobs in one snapshot

JobIDs == {"1", "2"}
SnapshotStates == {"RUNNING", "COMPLETING", "FAILED"}
SnapshotJobs == {[ID |-> id, State |-> state] : id \in JobIDs, state \in SnapshotStates}
\* the IDs a key press can name: the known ones and one the store never saw
DismissIDs == JobIDs \cup {"9"}

InitJobs ==
    /\ cfg = [limits |-> {0}, maxFed |-> 0, maxBulk |-> 0]
    /\ RendIdle
    /\ WrapIdle
    /\ FollIdle
    /\ UiIdle
    /\ store = NewJobStore
    /\ sprev = NewJobStore
    /\ jop = [op |-> "new"]

StoreApplySnapshot ==
    \E jobs \in SeqsUpTo(SnapshotJobs, MaxSnapshot) :
        /\ store' = ApplySnapshot(store, jobs)
        /\ sprev' = store
        /\ jop' = [op |-> "ApplySnapshot", jobs |-> jobs]
        /\ UNCHANGED <<cfg, uiVars, rendVars, wrapVars, follVars>>

StoreDismissIfTerminal ==
    \E jobID \in DismissIDs :
        LET d == DismissIfTerminal(store, jobID)
        IN  /\ store' = d.s
            /\ sprev' = store
            /\ jop' = [op |-> "DismissIfTerminal", jobID |-> jobID, ret |-> d.ret]
            /\ UNCHANGED <<cfg, uiVars, rendVars, wrapVars, follVars>>

StoreClearDismissedAndTerminal ==
    /\ store' = ClearDismissedAndTerminal(store)
    /\ sprev' = store
    /\ jop' = [op |-> "ClearDismissedAndTerminal"]
    /\ UNCHANGED <<cfg, uiVars, rendVars, wrapVars, follVars>>

NextJobs == StoreApplySnapshot \/ StoreDismissIfTerminal \/ StoreClearDismissedAndTerminal

SpecJobs == InitJobs /\ [][NextJobs]_vars

\* the IDs of the jobs VisibleJobs returns, in order
VisibleIDs(s) == LET v == VisibleJobs(s) IN {v[i].ID : i \in 1..Len(v)}

AppliedSnapshot == jop.op = "ApplySnapshot"

\* the jobs the store held as non-terminal that the snapshot does not contain
WentMissing ==
    {id \in DOMAIN sprev.records : ~sprev.records[id].Terminal /\ id \notin seenIDs(jop.jobs)}

(* C16: ApplySnapshot marks every job it held as non-terminal and does not  *)
(* find in the snapshot as Terminal with state COMPLETED, and no snapshot   *)
(* removes a job from VisibleJobs: a job visible before ApplySnapshot is    *)
(* visible after it, so only a dismissal ends its visibility.               *)
MissingBecomesCompleted ==
    AppliedSnapshot =>
        /\ \A id \in WentMissing :
              /\ store.records[id].Terminal
              /\ store.records[id].Job.State = "COMPLETED"
        /\ VisibleIDs(sprev) \subseteq VisibleIDs(store)

\* a COMPLETING job was missing from a snapshot that held the other job, and
\* is still listed
MissingBecomesCompletedWitness ==
    /\ AppliedSnapshot
    /\ "1" \in WentMissing
    /\ sprev.records["1"].Job.State = "COMPLETING"
    /\ Len(jop.jobs) = 1
    /\ "1" \in VisibleIDs(store)

CalledDismiss == jop.op = "DismissIfTerminal"

(* C17: DismissIfTerminal(id) returns true exactly when a record for id     *)
(* exists and is Terminal; after it returned true VisibleJobs does not      *)
(* contain the job; after it returned false the store is what it was        *)
(* before the call (so VisibleJobs is too).                                 *)
DismissOnlyTerminal ==
    CalledDismiss =>
        /\ jop.ret <=> (/\ jop.jobID \in DOMAIN sprev.records
                        /\ sprev.records[jop.jobID].Terminal)
        /\ jop.ret => jop.jobID \notin VisibleIDs(store)
        /\ ~jop.ret => (store = sprev /\ VisibleJobs(store) = VisibleJobs(sprev))

\* a listed terminal job was dismissed while a running one stays listed
DismissOnlyTerminalWitness ==
    /\ CalledDismiss
    /\ jop.ret
    /\ jop.jobID \in VisibleIDs(sprev)
    /\ VisibleIDs(store) # {}

\* the path has named one file since the start, which was never truncated or
\* removed: it only grew
OnlyGrows == Len(disk) = 1 /\ dirent = 1 /\ nTrunc = 0

PolledDelta == pc = "returned" /\ out.err = "nil" /\ io.kind = "delta"

(* C18: for a file that only grows, after every successful poll offset is   *)
(* the number of file bytes consumed so far: the position the poll read     *)
(* from plus the number of bytes it read, whatever appends fell between     *)
(* the poll's stat and its read, so the next poll continues with the first  *)
(* byte not yet handed to the interpreter.                                  *)
OffsetCountsConsumed ==
    /\ (PolledDelta /\ OnlyGrows) => fol.offset = fprev.offset + Len(io.handed)
    /\ (PolledBootstrap /\ OnlyGrows) =>
           fol.offset = bootstrapStart(SmallTail, io.size) + Len(ReadBuffer)

\* the last ingest call delivered one byte other than '[' to an interpreter
\* whose previous byte was ESC
AbandonedEscape ==
    /\ prev.pendingCSI = <<ESC>>
    /\ Len(chunk) = 1
    /\ chunk[1] # LBRACKET

(* C19: when the previous byte was ESC and the next byte b is not '[', only *)
(* the ESC is dropped: the interpreter and the values returned are those of *)
(* processing b in the normal state (no escape pending).                    *)
AbandonedEscapeResumes ==
    AbandonedEscape =>
        LET normal == ingest([prev EXCEPT !.pendingCSI = <<>>], chunk)
        IN  /\ r = normal.r
            /\ ret = [newLines |-> normal.newLines, currentChanged |-> normal.changed]

\* the last ingest call delivered one ESC, CR or LF to an interpreter in the
\* normal state
FlushingByte ==
    /\ prev.pendingCSI = <<>>
    /\ Len(chunk) = 1
    /\ chunk[1] \in {ESC, CR, LF}

(* C20: immediately after an ESC, CR or LF byte is processed in the normal  *)
(* state the pending multi-byte buffer is empty.                            *)
FlushEmptiesPending == FlushingByte => r.pendingUTF8 = <<>>

----------------------------------------------------------------------------
(* Retention, cursor and history of the tailRenderer. *)

\* the last ingest call advanced a line at least once
LineAdvanced == ret.newLines # <<>>

(* C21: a renderer created with a positive limit holds at most limit rows   *)
(* in history and active together after every line advance / compaction.    *)
RetentionBound ==
    (r.limit > 0 /\ LineAdvanced) => Len(r.history) + Len(r.active) <= r.limit

----------------------------------------------------------------------------
(* State machine: a renderer whose active window is filled by whole logs   *)
(* and that then receives text, line feeds and cursor-up sequences.        *)

MaxCursorFed == 5  \* bytes of the short calls per renderer life
MaxCursorBulk == 1 \* whole logs ingested per renderer life

CursorChunks ==
    {<<CharA>>, <<LF>>, <<ESC, LBRACKET, CMD_A>>, <<ESC, LBRACKET, Digit2, CMD_A>>}
CursorLimits == {TestLimit, ActiveWindow + 2}

InitCursor ==
    /\ cfg = [limits |-> CursorLimits, maxFed |-> MaxCursorFed, maxBulk |-> MaxCursorBulk]
    /\ RendInit
    /\ JobIdle
    /\ UiIdle
    /\ WrapIdle
    /\ FollIdle

NextCursor == IngestChunk(CursorChunks) \/ IngestBulk \/ ResetRenderer

SpecCursor == InitCursor /\ [][NextCursor]_vars

\* the last ingest call delivered one line feed to an interpreter in the
\* normal state
IsLineFeedCall == chunk = <<LF>> /\ prev.pendingCSI = <<>>

(* C22: after every ingest call (of one byte or more) and after reset the   *)
(* renderer has at least one active row, the cursor is on one of them and   *)
(* the column is not negative; after a line feed, compaction included, the  *)
(* cursor is on the row that followed its row before the line feed (a new   *)
(* empty row when there was none): that row was not evicted into history.   *)
CursorValid ==
    /\ Len(r.active) >= 1
    /\ 0 <= r.cursorLine
    /\ r.cursorLine < Len(r.active)
    /\ r.cursorCol >= 0
    /\ IsLineFeedCall =>
          r.active[r.cursorLine + 1] =
              IF prev.cursorLine + 2 <= Len(prev.active)
              THEN prev.active[prev.cursorLine + 2] ELSE <<>>

\* a line feed on the last row of a full window made compaction evict a
\* row, after a cursor-up by 2 had been clamped at the first row
CursorValidWitness ==
    /\ IsLineFeedCall
    /\ Len(prev.active) = ActiveWindow
    /\ Len(r.active) = ActiveWindow
    /\ r.cursorLine = ActiveWindow - 1
    /\ Len(r.history) = 1
    /\ SubSeq(fed, 1, 4) = <<ESC, LBRACKET, Digit2, CMD_A>>

\* the last ingest call delivered one of the short slices (not a whole log)
IsShortCall == chunk \in CursorChunks

\* the rows that left the active window in the last call, a single line
\* feed, in their order in the window
RowsLeft ==
    LET grown == IF prev.cursorLine = Len(prev.active) - 1 THEN 1 ELSE 0
        n == Len(prev.active) + grown - Len(r.active)
    IN [i \in 1..n |-> String(prev.active[i])]

(* C23: between two resets a step of ingest changes history only by         *)
(* appending, at its tail, the rows that left the active window, in their   *)
(* order, and by dropping entries from its head: a line feed leaves a       *)
(* suffix of the old history followed by those rows, and text and           *)
(* cursor-up sequences leave history as it was.                             *)
HistoryAppendOnly ==
    /\ IsLineFeedCall =>
          LET all == prev.history \o RowsLeft
          IN  /\ Len(r.history) <= Len(all)
              /\ r.history = LastN(all, Len(r.history))
    /\ (IsShortCall /\ ~IsLineFeedCall) => r.history = prev.history

\* a line feed dropped the oldest of two different history entries and
\* appended the row that left the window
HistoryAppendOnlyWitness ==
    /\ IsLineFeedCall
    /\ Len(prev.history) = 2
    /\ prev.history[1] # prev.history[2]
    /\ Len(RowsLeft) = 1
    /\ r.history = <<prev.history[2], RowsLeft[1]>>

----------------------------------------------------------------------------
(* Further properties of the follower. *)

\* the poll in progress or just returned got a size from os.Stat
StatSize == IF pc = "returned" THEN io.size ELSE st

PolledOk == pc = "returned" /\ out.err = "nil" /\ ~absent

(* C24: the follower's offset never decreases except in a poll whose        *)
(* os.Stat reports a size smaller than offset, or in reset(path); after     *)
(* every successful poll that found the file, offset is the size that       *)
(* poll's os.Stat reported.                                                 *)
OffsetMonotonic ==
    /\ fol.offset < fprev.offset =>
          /\ pc \in {"open", "read", "returned"}
          /\ StatSize < fprev.offset
    /\ PolledOk => fol.offset = io.size

\* a poll read the bytes appended since the previous one
OffsetMonotonicWitness ==
    /\ PolledOk
    /\ io.kind = "delta"
    /\ fprev.offset = 1
    /\ fol.offset = 2

\* the poll that returned found, without error, the file of an initialized
\* follower at the size of its offset
PolledSameSize == PolledOk /\ fprev.initialized /\ io.size = fprev.offset

(* C25: a poll of an initialized follower whose file size equals offset     *)
(* returns a chunk with no new lines, CurrentChanged = false, Missing =     *)
(* false and CurrentLine = the interpreter's current line, and leaves       *)
(* offset and the interpreter as they were.                                 *)
NoGrowthNoChange ==
    PolledSameSize =>
        /\ out.chunk = [Label |-> label, NewLines |-> <<>>,
                        CurrentLine |-> currentLine(fprev.renderer),
                        CurrentChanged |-> FALSE, Missing |-> FALSE]
        /\ fol.offset = fprev.offset
        /\ fol.renderer = fprev.renderer
        /\ fol.initialized

\* the file still holds the unterminated line read by the previous poll
NoGrowthNoChangeWitness ==
    /\ PolledSameSize
    /\ fprev.offset = 1
    /\ out.chunk.CurrentLine = <<CharA>>

(* C26: after every poll that returns without error the follower's missing  *)
(* field is true exactly when the file was absent at that poll.             *)
MissingIsExistence ==
    (pc = "returned" /\ out.err = "nil") => (fol.missing <=> absent)

(* C27: after any sequence of applyChunk calls since construction or the    *)
(* last reset, the finalized lines of the merged buffer are the last        *)
(* min(limit, total) of all entries "[LABEL] text" added, in call order     *)
(* and, within a call, in the order of the chunk's NewLines.                *)
MergedOrder == merged.lines = LastN(applied, Min(merged.limit, Len(applied)))

\* entries of both streams were added and the oldest was dropped
MergedOrderWitness ==
    /\ merged.limit = 2
    /\ Len(applied) = 3
    /\ applied[1] # applied[2]
    /\ applied[2] = Labelled(streamOut, <<CharA>>)
    /\ applied[3] = Labelled(streamErr, <<>>)
    /\ merged.lines = <<applied[2], applied[3]>>

----------------------------------------------------------------------------
(* C30: each row is finalized once: a row whose text a line feed emitted    *)
(* in newLines is not emitted again by a later line feed.  While no row     *)
(* has been dropped (history untrimmed) the rows are those of history and   *)
(* active, and the last of them has not been terminated, so the lines       *)
(* emitted since construction or reset are fewer than the rows.             *)
EachRowOnce ==
    nBulk = 0 => Len(emitted) <= Len(r.history) + Len(r.active) - 1

----------------------------------------------------------------------------
(* The UI model (type model and its Update).  Of the model's fields the     *)
(* ones kept are those the selection, the followers' bindings and the       *)
(* cancel dialog depend on: store, jobs, selectedIdx, selectedID,           *)
(* focusArea, outFollower, errFollower, cancelConfirm, cancelConfirmJobID.  *)
(* A follower is kept as its path (its reading is the follower machine      *)
(* above); a nil follower is the empty sequence.  selectedIdx counts from   *)
(* 0 as in the code, jobs[i] of the code is jobs[i + 1] here.               *)

\* fmt.Sprintf("slurm_logs/%s.out", id) and ("slurm_logs/%s.err", id)
jobLogPath(id, ext) == <<"slurm_logs", id, ext>>

\* initialModel()
initialModel ==
    [store |-> NewJobStore, jobs |-> <<>>, selectedIdx |-> 0, selectedID |-> "",
     focusArea |-> 0, outFollower |-> <<>>, errFollower |-> <<>>,
     cancelConfirm |-> FALSE, cancelConfirmJobID |-> "", quit |-> FALSE]

\* m.selectedJob(): the model left behind (the index is clamped), the job and ok
selectedJob(m) ==
    IF Len(m.jobs) = 0 THEN [m |-> m, job |-> <<>>, ok |-> FALSE]
    ELSE LET lo == IF m.selectedIdx < 0 THEN 0 ELSE m.selectedIdx
             idx == IF lo >= Len(m.jobs) THEN Len(m.jobs) - 1 ELSE lo
         IN  [m |-> [m EXCEPT !.selectedIdx = idx], job |-> <<m.jobs[idx + 1]>>, ok |-> TRUE]

\* m.ensureSelectionByID()
ensureSelectionByID(m) ==
    IF m.selectedID = ""
    THEN LET sj == selectedJob(m)
         IN  IF sj.ok THEN [sj.m EXCEPT !.selectedID = sj.job[1].ID] ELSE sj.m
    ELSE LET found == {i \in 1..Len(m.jobs) : m.jobs[i].ID = m.selectedID}
         IN  IF found # {}
             THEN [m EXCEPT !.selectedIdx = (CHOOSE i \in found : \A k \in found : i <= k) - 1]
             ELSE IF Len(m.jobs) = 0
             THEN [m EXCEPT !.selectedIdx = 0, !.selectedID = ""]
             ELSE LET idx == IF m.selectedIdx >= Len(m.jobs) THEN Len(m.jobs) - 1
                             ELSE m.selectedIdx
                  IN  [m EXCEPT !.selectedIdx = idx, !.selectedID = m.jobs[idx + 1].ID]

\* m.switchToJob(job): both followers are created on, or reset to, the job's paths
switchToJob(m, job) ==
    [m EXCEPT !.outFollower = <<jobLogPath(job.ID, "out")>>,
              !.errFollower = <<jobLogPath(job.ID, "err")>>]

\* m.armCancelConfirm(jobID)
armCancelConfirm(m, jobID) ==
    [m EXCEPT !.cancelConfirm = TRUE, !.cancelConfirmJobID = jobID]

\* m.clearCancelConfirm()
clearCancelConfirm(m) ==
    [m EXCEPT !.cancelConfirm = FALSE, !.cancelConfirmJobID = ""]

\* handleCancelConfirmKey calling cancelJob on the keys it does not name too
handleCancelConfirmKey_AnyKey(m, key) ==
    IF key \in {"n", "N", "esc", "c"}
    THEN [m |-> clearCancelConfirm(m), cancelled |-> <<>>, consumed |-> TRUE]
    ELSE [m |-> clearCancelConfirm(m), cancelled |-> <<m.cancelConfirmJobID>>,
          consumed |-> TRUE]

\* m.handleCancelConfirmKey(key): the model left behind, the IDs cancelJob
\* was called with, and consumed
handleCancelConfirmKey(m, key) ==
    IF key \in {"y", "Y", "enter"}
    THEN [m |-> clearCancelConfirm(m), cancelled |-> <<m.cancelConfirmJobID>>,
          consumed |-> TRUE]
    ELSE IF key \in {"n", "N", "esc", "c"}
    THEN [m |-> clearCancelConfirm(m), cancelled |-> <<>>, consumed |-> TRUE]
    ELSE [m |-> m, cancelled |-> <<>>, consumed |-> TRUE]

\* m.pollSelectedLogs(): the model left behind and the paths polled
pollSelectedLogs(m) ==
    LET sj == selectedJob(m)
        n == IF sj.m.outFollower = <<>> \/ sj.m.errFollower = <<>>
             THEN switchToJob(sj.m, sj.job[1]) ELSE sj.m
    IN  IF ~sj.ok THEN [m |-> sj.m, polled |-> <<>>]
        ELSE [m |-> n, polled |-> <<n.outFollower[1], n.errFollower[1]>>]

\* Update, case jobMsg
updateJobMsg(m, msg) ==
    LET s == ApplySnapshot(m.store, msg)
        e == ensureSelectionByID([m EXCEPT !.store = s, !.jobs = VisibleJobs(s)])
        sj == selectedJob(e)
        a == IF sj.ok /\ sj.job[1].ID # sj.m.selectedID
             THEN switchToJob([sj.m EXCEPT !.selectedID = sj.job[1].ID], sj.job[1])
             ELSE sj.m
        sk == selectedJob(a)
    IN  IF a.selectedID # "" THEN a
        ELSE IF sk.ok
        THEN switchToJob([sk.m EXCEPT !.selectedID = sk.job[1].ID], sk.job[1])
        ELSE sk.m

\* Update, case tea.KeyMsg, keys "up" and "k"
keyUp(m) ==
    IF m.focusArea = 0 /\ m.selectedIdx > 0
    THEN LET idx == m.selectedIdx - 1
         IN  switchToJob([m EXCEPT !.selectedIdx = idx, !.selectedID = m.jobs[idx + 1].ID],
                         m.jobs[idx + 1])
    ELSE m

\* Update, case tea.KeyMsg, keys "down" and "j"
keyDown(m) ==
    IF m.focusArea = 0 /\ m.selectedIdx < Len(m.jobs) - 1
    THEN LET idx == m.selectedIdx + 1
         IN  switchToJob([m EXCEPT !.selectedIdx = idx, !.selectedID = m.jobs[idx + 1].ID],
                         m.jobs[idx + 1])
    ELSE m

\* Update, case tea.KeyMsg, key "c"
keyCancel(m) ==
    LET sj == selectedJob(m)
    IN  IF sj.ok /\ isActiveState(sj.job[1].State)
        THEN armCancelConfirm(sj.m, sj.job[1].ID)
        ELSE sj.m

\* the tail "d" and "D" share: the jobs are refreshed and the selection repaired
afterDismiss(m, s) ==
    LET prevID == m.selectedID
        e == ensureSelectionByID([m EXCEPT !.store = s, !.jobs = VisibleJobs(s)])
        sj == selectedJob(e)
    IN  IF sj.ok /\ sj.job[1].ID # prevID
        THEN switchToJob([sj.m EXCEPT !.selectedID = sj.job[1].ID], sj.job[1])
        ELSE sj.m

\* Update, case tea.KeyMsg, key "d"
keyDismiss(m) ==
    LET sj == selectedJob(m)
        d == DismissIfTerminal(sj.m.store, sj.job[1].ID)
    IN  IF ~sj.ok THEN sj.m
        ELSE IF d.ret THEN afterDismiss(sj.m, d.s)
        ELSE sj.m

\* Update, case tea.KeyMsg, key "D"
keyClear(m) == afterDismiss(m, ClearDismissedAndTerminal(m.store))

\* Update, case tea.KeyMsg, the second switch on the key
keySwitch(m, key) ==
    CASE key = "q" -> [m EXCEPT !.quit = TRUE]
      [] key = "tab" -> [m EXCEPT !.focusArea = (m.focusArea + 1) % 3]
      [] key = "shift+tab" -> [m EXCEPT !.focusArea = (m.focusArea + 2) % 3]
      [] key \in {"up", "k"} -> keyUp(m)
      [] key \in {"down", "j"} -> keyDown(m)
      [] key = "c" -> keyCancel(m)
      [] key = "d" -> keyDismiss(m)
      [] key = "D" -> keyClear(m)
      [] OTHER -> m

\* Update, case tea.KeyMsg: the model left behind and the IDs cancelJob was
\* called with
updateKey(m, key) ==
    IF key = "ctrl+c" THEN [m |-> [m EXCEPT !.quit = TRUE], cancelled |-> <<>>]
    ELSE IF m.cancelConfirm
    THEN LET h == handleCancelConfirmKey(m, key)
         IN  IF h.consumed THEN [m |-> h.m, cancelled |-> h.cancelled]
             ELSE [m |-> keySwitch(h.m, key), cancelled |-> h.cancelled]
    ELSE [m |-> keySwitch(m, key), cancelled |-> <<>>]

----------------------------------------------------------------------------
(* State machine: the UI model receiving squeue snapshots, ticks and keys.  *)
(* The program ends with tea.Quit: no message is handled after it.          *)

UiStates == {"RUNNING", "PENDING", "FAILED"}
UiJobs == {[ID |-> id, State |-> state] : id \in JobIDs, state \in UiStates}
\* a squeue listing names a job once
UiSnapshots ==
    {msg \in SeqsUpTo(UiJobs, MaxSnapshot) :
        \A i, k \in 1..Len(msg) : msg[i].ID = msg[k].ID => i = k}
UiKeys == {"ctrl+c", "q", "tab", "shift+tab", "up", "k", "down", "j", "c", "d", "D",
           "y", "Y", "enter", "n", "esc", "x"}

\* what a claim compares the model with: the dialog and the selection as
\* they were when the message arrived
Before(m) ==
    [cancelConfirm |-> m.cancelConfirm, cancelConfirmJobID |-> m.cancelConfirmJobID,
     selectedIdx |-> m.selectedIdx, selectedID |-> m.selectedID,
     focusArea |-> m.focusArea, job |-> selectedJob(m).job]

InitUI ==
    /\ cfg = [limits |-> {0}, maxFed |-> 0, maxBulk |-> 0]
    /\ RendIdle
    /\ WrapIdle
    /\ FollIdle
    /\ JobIdle
    /\ ui = initialModel
    /\ uimsg = [msg |-> "new"]

UpdateJobMsg ==
    /\ ~ui.quit
    /\ \E msg \in UiSnapshots :
        /\ ui' = updateJobMsg(ui, msg)
        /\ uimsg' = [msg |-> "jobMsg", before |-> Before(ui), cancelled |-> <<>>,
                     polled |-> <<>>]
    /\ UNCHANGED <<cfg, jobVars, rendVars, wrapVars, follVars>>

UpdateTickMsg ==
    /\ ~ui.quit
    /\ \E p \in {pollSelectedLogs(ui)} :
        /\ ui' = p.m
        /\ uimsg' = [msg |-> "tickMsg", before |-> Before(ui), cancelled |-> <<>>,
                     polled |-> p.polled]
    /\ UNCHANGED <<cfg, jobVars, rendVars, wrapVars, follVars>>

UpdateKeyMsg ==
    /\ ~ui.quit
    /\ \E key \in UiKeys :
        \E u \in {updateKey(ui, key)} :
            /\ ui' = u.m
            /\ uimsg' = [msg |-> "KeyMsg", key |-> key, before |-> Before(ui),
                         cancelled |-> u.cancelled, polled |-> <<>>]
    /\ UNCHANGED <<cfg, jobVars, rendVars, wrapVars, follVars>>

NextUI == UpdateJobMsg \/ UpdateTickMsg \/ UpdateKeyMsg

SpecUI == InitUI /\ [][NextUI]_vars

\* a job is selected: the job selectedJob returns
Selected == selectedJob(ui).job

(* C28: after every message for which a job is selected and the followers   *)
(* exist, the followers' paths are the log paths of the selected job, and   *)
(* the paths a tick polls are these.                                        *)
FollowersTrackSelection ==
    (uimsg.msg \in {"jobMsg", "tickMsg", "KeyMsg"} /\ Selected # <<>>
        /\ ui.outFollower # <<>> /\ ui.errFollower # <<>>)
    => /\ ui.outFollower = <<jobLogPath(Selected[1].ID, "out")>>
       /\ ui.errFollower = <<jobLogPath(Selected[1].ID, "err")>>
       /\ uimsg.polled \in {<<>>, <<jobLogPath(Selected[1].ID, "out"),
                                    jobLogPath(Selected[1].ID, "err")>>}

----------------------------------------------------------------------------
\* the last message was a key press
IsKeyMsg == uimsg.msg = "KeyMsg"

\* the last message was handled and the dialog was armed when it arrived
WasArmed == uimsg.msg \in {"jobMsg", "tickMsg", "KeyMsg"} /\ uimsg.before.cancelConfirm

(* C29: cancelJob is called only when y, Y or enter arrives while the       *)
(* confirmation is armed, with the job ID recorded when it was armed; the   *)
(* confirmation is armed only by "c" on a selected job whose state is       *)
(* RUNNING or PENDING, the recorded ID stays while it is armed, and any     *)
(* other key except ctrl+c that arrives while it is armed neither cancels   *)
(* nor changes the selection nor gets to the key's own handler.             *)
CancelNeedsConfirmation ==
    uimsg.msg \in {"jobMsg", "tickMsg", "KeyMsg"} =>
        /\ uimsg.cancelled # <<>> =>
            /\ IsKeyMsg /\ uimsg.key \in {"y", "Y", "enter"}
            /\ uimsg.before.cancelConfirm
            /\ uimsg.cancelled = <<uimsg.before.cancelConfirmJobID>>
        /\ (ui.cancelConfirm /\ ~uimsg.before.cancelConfirm) =>
            /\ IsKeyMsg /\ uimsg.key = "c"
            /\ uimsg.before.job # <<>>
            /\ uimsg.before.job[1].State \in {"RUNNING", "PENDING"}
            /\ ui.cancelConfirmJobID = uimsg.before.job[1].ID
        /\ (ui.cancelConfirm /\ uimsg.before.cancelConfirm) =>
            ui.cancelConfirmJobID = uimsg.before.cancelConfirmJobID
        /\ (IsKeyMsg /\ uimsg.before.cancelConfirm
                /\ uimsg.key \notin {"ctrl+c", "y", "Y", "enter"}) =>
            /\ uimsg.cancelled = <<>>
            /\ ui.selectedID = uimsg.before.selectedID
            /\ ui.selectedIdx = uimsg.before.selectedIdx
            /\ ui.focusArea = uimsg.before.focusArea
            /\ ~ui.quit

\* the second of two jobs was armed while PENDING and enter cancelled it
CancelNeedsConfirmationWitness ==
    /\ WasArmed /\ IsKeyMsg /\ uimsg.key = "enter"
    /\ uimsg.cancelled = <<"2">>
    /\ uimsg.before.selectedIdx = 1
    /\ ~ui.cancelConfirm

\* a key the dialog does not name arrived while it was armed and left it armed
CancelPendingWitness ==
    /\ WasArmed /\ IsKeyMsg /\ uimsg.key = "d"
    /\ ui.cancelConfirm /\ ui.cancelConfirmJobID = "1"
    /\ uimsg.before.job # <<>> /\ uimsg.before.job[1].State = "FAILED"

----------------------------------------------------------------------------
\* the pending multi-byte buffer holds at most an incomplete sequence
PendingUTF8Bounded == Len(r.pendingUTF8) <= 3

\* a byte of a control sequence after ESC [: a parameter or intermediate byte
IsSequenceByte(b) == b >= 32 /\ b < CSI_FINAL_LO

\* the pending control-sequence buffer holds ESC, then '[', then bytes of
\* the sequence only
PendingCSIHoldsSequence ==
    \A i \in 1..Len(r.pendingCSI) :
        \/ i = 1 /\ r.pendingCSI[i] = ESC
        \/ i = 2 /\ r.pendingCSI[i] = LBRACKET
        \/ i > 2 /\ IsSequenceByte(r.pendingCSI[i])

(* C31: the pending buffers are bounded and never block the stream: the     *)
(* pending multi-byte buffer holds at most 3 bytes; the pending             *)
(* control-sequence buffer does not grow with the input (it never holds     *)
(* all the bytes of the longest inputs) and, after an ESC [ without a       *)
(* final byte, line feeds and text bytes are not accumulated in it.         *)
PendingNeverBlocks ==
    /\ PendingUTF8Bounded
    /\ PendingCSIHoldsSequence
    /\ Len(fed) = cfg.maxFed => Len(r.pendingCSI) < Len(fed)

----------------------------------------------------------------------------
\* the store holds the job as RUNNING or PENDING.  Only ApplySnapshot writes
\* a state, and it turns every job the snapshot lacks into COMPLETED, so
\* these are the jobs the most recent snapshot listed as active
ActiveIDs(s) == {id \in DOMAIN s.records : isActiveState(s.records[id].Job.State)}

\* the IDs the snapshot just applied lists as active (the last entry counts
\* when a listing names an ID twice)
SnapshotActiveIDs ==
    {jop.jobs[i].ID : i \in {k \in 1..Len(jop.jobs) :
        /\ isActiveState(jop.jobs[k].State)
        /\ \A n \in (k + 1)..Len(jop.jobs) : jop.jobs[n].ID # jop.jobs[k].ID}}

(* C32: every job the most recent snapshot contains with state RUNNING or   *)
(* PENDING is returned by VisibleJobs, after ApplySnapshot and after any    *)
(* dismissal that follows it, also when the ID was dismissed earlier.       *)
ActiveJobsVisible ==
    /\ AppliedSnapshot => SnapshotActiveIDs \subseteq VisibleIDs(store)
    /\ ActiveIDs(store) \subseteq VisibleIDs(store)

\* the two readings of "active in the most recent snapshot" agree
ActiveIDsAreSnapshots == AppliedSnapshot => SnapshotActiveIDs = ActiveIDs(store)

\* dismissals alone never hide an active job: a step that is not
\* ApplySnapshot leaves the active jobs and their visibility as they were
DismissKeepsActive ==
    jop.op \in {"DismissIfTerminal", "ClearDismissedAndTerminal"} =>
        \A id \in ActiveIDs(store) :
            /\ id \in ActiveIDs(sprev)
            /\ id \in VisibleIDs(store) <=> id \in VisibleIDs(sprev)

----------------------------------------------------------------------------
\* the last poll returned a non-nil error
PolledError == pc = "returned" /\ out.err # "nil"

\* the last poll found the file shorter than the offset it had recorded
SawTruncation == pc = "returned" /\ io.kind # "none" /\ io.size < fprev.offset

(* C33: a poll that returns a non-nil error returns a chunk carrying only   *)
(* the label and leaves the follower's offset, initialized flag and         *)
(* interpreter as they were before the poll, also when the poll had         *)
(* detected a truncation.                                                   *)
FailedPollChangesNothing ==
    PolledError =>
        /\ out.chunk = LabelChunk(label)
        /\ fol.offset = fprev.offset
        /\ fol.initialized = fprev.initialized
        /\ fol.renderer = fprev.renderer

\* the same for the failed polls that saw no truncation
FailedPollWithoutTruncation ==
    (PolledError /\ ~SawTruncation) => fol = fprev /\ out.chunk = LabelChunk(label)

====
